---- MODULE Spec2Model ----
(***************************************************************************)
(* Time-series cache-and-fetch engine of the stock data service:           *)
(*   handlers/stocks.py        single-symbol price pipeline                *)
(*   handlers/batch.py         multi-symbol batch coordinator              *)
(*   repositories/stocks_cache.py   record store (DynamoDB table)          *)
(*   services/yfinance_service.py   upstream fetch with retry              *)
(*   utils/transform.py, utils/validation.py                               *)
(*                                                                         *)
(* Strings that the code inspects character by character (tickers) are     *)
(* sequences of one-character strings.  Date strings are integers:         *)
(*   NoDate      the parameter is absent (None or "")                      *)
(*   Malformed   a string that does not match DATE_PATTERN                 *)
(*   NonCalendar a string that matches DATE_PATTERN but is no calendar     *)
(*               date ("0000-00-00"); it sorts before every real date      *)
(*   1..MaxDay   calendar dates, in chronological = lexicographic order    *)
(* Prices are integers in units of 1e-4 (the code rounds to 4 decimals).   *)
(* Time is in seconds; day d starts at second d * SecondsPerDay.           *)
(***************************************************************************)
EXTENDS Integers, Sequences, FiniteSets, TLC

VARIABLES
    store,      \* the DynamoDB table: a set of items
    now,        \* time.time() / datetime.now()
    request,    \* the event being handled
    pc,         \* position of the handler: "start", "pool", "done"
    response,   \* the API Gateway response of the handler
    outcome,    \* single-symbol: what handle_prices_request did (result and calls)
    futures,    \* batch: one record per submitted fetch_ticker task
    results,    \* batch: dict ticker -> data
    errors,     \* batch: dict ticker -> error message
    cached,     \* batch: dict ticker -> was_cached
    dynamodb    \* the module global _dynamodb of the store repository

vars ==
    <<store, now, request, pc, response, outcome, futures, results, errors, cached, dynamodb>>

(***************************************************************************)
(* Bounds of the model                                                     *)
(***************************************************************************)
MaxDay == 7          \* calendar dates are 1..MaxDay
MaxFlaky == 1        \* transient failures the upstream injects before it answers
MaxBatch == 3        \* longest ticker list that is carried through the pool
MaxTick == 2         \* days that pass in a history of the record store
MaxShuffle == 4      \* items of a query answer whose order is varied

(***************************************************************************)
(* Program constants                                                       *)
(***************************************************************************)
MAX_TICKERS == 10
MAX_RETRIES == 3
BACKOFF_BASE == 2
TTL_HISTORICAL == 7776000
TTL_CURRENT == 86400
SecondsPerDay == 86400
POOL_CAP == 5
BATCH_CHUNK == 25

NoDate == -1
Malformed == -2
NonCalendar == 0
Days == 1..MaxDay
DateStrings == {NonCalendar} \cup Days

Max(a, b) == IF a >= b THEN a ELSE b
Min(a, b) == IF a <= b THEN a ELSE b

\* Python int(): truncation toward zero of the quotient n/d (d > 0)
IntTrunc(n, d) == IF n >= 0 THEN n \div d ELSE -((-n) \div d)

\* Python round() of the quotient n/d (n >= 0, d > 0) to an integer, ties to even
RoundDiv(n, d) ==
    LET q == n \div d
        r == n % d
    IN  IF 2 * r < d THEN q
        ELSE IF 2 * r > d THEN q + 1
        ELSE IF q % 2 = 0 THEN q ELSE q + 1

(***************************************************************************)
(* Strings: tickers                                                        *)
(***************************************************************************)
TickerChars == {"F", "T", ".", "-", "1"}

UpperChar(c) == CASE c = "f" -> "F" [] c = "t" -> "T" [] OTHER -> c

\* the str of a sequence of characters
RECURSIVE Str(_)
Str(s) == IF Len(s) = 0 THEN "" ELSE s[1] \o Str(Tail(s))

\* str.upper()
Upper(s) == [i \in 1..Len(s) |-> UpperChar(s[i])]

\* TICKER_PATTERN.match(s) for ^[A-Z0-9.\-]+$ : Python's $ matches at the end of
\* the string and also just before a newline that ends the string
TickerPatternMatch(s) ==
    LET core == IF Len(s) >= 1 /\ s[Len(s)] = "\n" THEN SubSeq(s, 1, Len(s) - 1) ELSE s
    IN  /\ Len(core) >= 1
        /\ \A i \in 1..Len(core) : core[i] \in TickerChars

\* DATE_PATTERN.match(d)
DatePatternMatch(d) == d \in DateStrings

\* datetime.strptime(d, "%Y-%m-%d") succeeds
StrptimeOk(d) == d \in Days

\* datetime.now().strftime("%Y-%m-%d")
Today(t) == t \div SecondsPerDay

(***************************************************************************)
(* Exceptions                                                              *)
(***************************************************************************)
NoExc == [type |-> "none", message |-> "", status_code |-> 0]
APIError(message, status_code) ==
    [type |-> "APIError", message |-> message, status_code |-> status_code]
OtherError(type, message) == [type |-> type, message |-> message, status_code |-> 0]

\* the exception the boto3 query raises when the store cannot be read
StoreError == OtherError("ClientError", "store unavailable")

\* str(e): APIError overrides __str__
StrOfExc(e) ==
    IF e.type = "APIError"
    THEN "APIError(" \o ToString(e.status_code) \o "): " \o e.message
    ELSE e.message

(***************************************************************************)
(* Upstream frames and their normalisation (utils/transform.py)            *)
(***************************************************************************)
IsoSuffix == "T00:00:00.000Z"

\* idx.strftime("%Y-%m-%dT00:00:00.000Z") and f"{item['date']}T00:00:00.000Z"
IsoDate(d) == <<d, IsoSuffix>>

\* record["date"][:10]
DatePrefix(iso) == iso[1]

\* One row of the yfinance history frame for day d (values in 1e-4 units, volume a count)
UpstreamRow(d) ==
    [idx |-> d,
     Open |-> 5000 + 100 * d,
     High |-> 5200 + 100 * d,
     Low |-> 4900 + 100 * d,
     Close |-> 10000,
     AdjClose |-> 9500,
     Volume |-> 1000 * d,
     Dividends |-> 0,
     StockSplits |-> 0]

\* The exchange is closed on two days of every seven
IsTradingDay(d) == d % 7 \notin {6, 0}

\* The frame stock.history(start, end) answers with: the sessions of the range,
\* ascending
RECURSIVE RowsFrom(_, _)
RowsFrom(lo, hi) ==
    IF lo > hi THEN <<>>
    ELSE IF IsTradingDay(lo) THEN <<UpstreamRow(lo)>> \o RowsFrom(lo + 1, hi)
    ELSE RowsFrom(lo + 1, hi)

History(start_date, end_date) == RowsFrom(Max(start_date, 1), Min(end_date, MaxDay))

\* A frame: raises = FALSE for a well-formed frame; otherwise iterating the frame
\* raises and msg is the str() of that exception
Frame(rows, raises, msg) == [rows |-> rows, raises |-> raises, msg |-> msg]

\* the frame has no "Adj Close" column
NoAdjClose == -1

\* greatest common divisor of two naturals that are not both 0
RECURSIVE GCD(_, _)
GCD(a, b) == IF b = 0 THEN a ELSE GCD(b, a % b)

\* a variant of TransformRow that leaves open, high and low unadjusted
TransformRow_Unadjusted(row) ==
    [date |-> IsoDate(row.idx),
     open |-> row.Open, high |-> row.High, low |-> row.Low, close |-> row.Close,
     volume |-> row.Volume,
     adjOpen |-> row.Open, adjHigh |-> row.High, adjLow |-> row.Low,
     adjClose |-> IF row.AdjClose = NoAdjClose THEN row.Close ELSE row.AdjClose,
     adjVolume |-> row.Volume,
     divCash |-> row.Dividends,
     splitFactor |-> IF row.StockSplits # 0 THEN row.StockSplits ELSE 10000]

\* One record of transform_history_to_tiingo
TransformRow(row) ==
    LET close == row.Close
        \* row.get("Adj Close", close)
        adj_close == IF row.AdjClose = NoAdjClose THEN close ELSE row.AdjClose
        \* adj_ratio = adj_close / close if close != 0 else 1.0, applied to v;
        \* the ratio is taken in lowest terms to keep the product small
        g == GCD(adj_close, close)
        Adjusted(v) == IF close # 0 THEN RoundDiv(v * (adj_close \div g), close \div g)
                       ELSE v
        split == row.StockSplits
    IN  [date |-> IsoDate(row.idx),
         open |-> row.Open,
         high |-> row.High,
         low |-> row.Low,
         close |-> row.Close,
         volume |-> row.Volume,
         adjOpen |-> Adjusted(row.Open),
         adjHigh |-> Adjusted(row.High),
         adjLow |-> Adjusted(row.Low),
         adjClose |-> adj_close,
         adjVolume |-> row.Volume,
         divCash |-> row.Dividends,
         splitFactor |-> IF split # 0 THEN split ELSE 10000]

\* transform_history_to_tiingo(df, ticker): the records, or the exception that
\* iterating the frame raised
transform_history_to_tiingo(df) ==
    IF Len(df.rows) = 0 THEN [raised |-> FALSE, exc |-> NoExc, data |-> <<>>]
    ELSE IF df.raises
    THEN [raised |-> TRUE, exc |-> OtherError("Exception", df.msg), data |-> <<>>]
    ELSE [raised |-> FALSE, exc |-> NoExc,
          data |-> [i \in 1..Len(df.rows) |-> TransformRow(df.rows[i])]]

\* The priceData a cache item carries for a response record
PriceDataOf(record) ==
    [open |-> record.open, high |-> record.high, low |-> record.low,
     close |-> record.close, volume |-> record.volume,
     adjOpen |-> record.adjOpen, adjHigh |-> record.adjHigh,
     adjLow |-> record.adjLow, adjClose |-> record.adjClose,
     adjVolume |-> record.adjVolume, divCash |-> record.divCash,
     splitFactor |-> record.splitFactor]

\* {"date": f"{item['date']}T00:00:00.000Z", **priceData} of the cache-hit branch
CachedRecord(item) ==
    LET p == item.priceData
    IN  [date |-> IsoDate(item.date),
         open |-> p.open, high |-> p.high, low |-> p.low, close |-> p.close,
         volume |-> p.volume, adjOpen |-> p.adjOpen, adjHigh |-> p.adjHigh,
         adjLow |-> p.adjLow, adjClose |-> p.adjClose, adjVolume |-> p.adjVolume,
         divCash |-> p.divCash, splitFactor |-> p.splitFactor]

(***************************************************************************)
(* Record store (repositories/stocks_cache.py)                             *)
(***************************************************************************)
\* _dynamodb = None
NoHandle == 0

\* the resource of a process that served a request before
WarmHandle == MaxBatch + 1

\* a variant of calculate_ttl that puts a date of exactly 7 days in the long tier
calculate_ttl_FromSevenDays(date_str, t) ==
    IF StrptimeOk(date_str)
    THEN LET age_days == Today(t) - date_str
         IN  IF age_days >= 7 THEN t + TTL_HISTORICAL ELSE t + TTL_CURRENT
    ELSE t + TTL_CURRENT

\* a variant of calculate_ttl that gives a date it cannot parse the long tier
calculate_ttl_LongDefault(date_str, t) ==
    IF StrptimeOk(date_str)
    THEN LET age_days == Today(t) - date_str
         IN  IF age_days > 7 THEN t + TTL_HISTORICAL ELSE t + TTL_CURRENT
    ELSE t + TTL_HISTORICAL

\* calculate_ttl(date_str) at time t
calculate_ttl(date_str, t) ==
    IF StrptimeOk(date_str)
    THEN LET age_days == Today(t) - date_str
         IN  IF age_days > 7 THEN t + TTL_HISTORICAL ELSE t + TTL_CURRENT
    ELSE t + TTL_CURRENT

\* The item put_stock / batch_put_stocks builds from a caller's item
CacheItem(item, t) ==
    [ticker |-> Upper(item.ticker),
     date |-> item.date,
     priceData |-> item.priceData,
     ttl |-> calculate_ttl(item.date, t),
     fetchedAt |-> t * 1000]

\* a variant of PutItem that adds the item next to the one the key already has
PutItem_Appends(st, it) == st \cup {it}

\* table.put_item: the table is keyed by (ticker, date), a put replaces the item
PutItem(st, it) ==
    {x \in st : ~(x.ticker = it.ticker /\ x.date = it.date)} \cup {it}

RECURSIVE PutItems(_, _)
PutItems(st, its) ==
    IF Len(its) = 0 THEN st ELSE PutItems(PutItem(st, Head(its)), Tail(its))

\* number of physical write groups batch_writer sends for n items
NumChunks(n) == (n + BATCH_CHUNK - 1) \div BATCH_CHUNK

\* the physical write groups of the batch writer for the items put into it: it
\* flushes whenever BATCH_CHUNK items are buffered, and the rest when it is left
WriteGroups(cache_items) ==
    [k \in 1..NumChunks(Len(cache_items)) |->
        SubSeq(cache_items, (k - 1) * BATCH_CHUNK + 1, Min(k * BATCH_CHUNK, Len(cache_items)))]

\* a variant of batch_put_stocks that stores the first write group only
batch_put_stocks_FirstGroupOnly(st, items, t, failAt) ==
    IF Len(items) = 0 THEN [raised |-> FALSE, store |-> st, written |-> 0]
    ELSE LET cache_items == [i \in 1..Len(items) |-> CacheItem(items[i], t)]
             n == IF failAt = 1 THEN 0 ELSE Min(Len(items), BATCH_CHUNK)
         IN  [raised |-> failAt # 0,
              store |-> PutItems(st, SubSeq(cache_items, 1, n)),
              written |-> n]

\* a variant of batch_put_stocks that computes one ttl for the batch, from the
\* date of its first item
batch_put_stocks_OneTtlPerBatch(st, items, t, failAt) ==
    IF Len(items) = 0 THEN [raised |-> FALSE, store |-> st, written |-> 0]
    ELSE LET cache_items == [i \in 1..Len(items) |->
                                [CacheItem(items[i], t)
                                    EXCEPT !.ttl = calculate_ttl(items[1].date, t)]]
             n == IF failAt = 0 THEN Len(items)
                  ELSE Min(Len(items), (failAt - 1) * BATCH_CHUNK)
         IN  [raised |-> failAt # 0,
              store |-> PutItems(st, SubSeq(cache_items, 1, n)),
              written |-> n]

\* batch_put_stocks(items) at time t.  failAt = 0: every write group succeeds;
\* failAt = k > 0: write group k fails, the groups before it are stored and the
\* exception is re-raised.
batch_put_stocks(st, items, t, failAt) ==
    IF Len(items) = 0 THEN [raised |-> FALSE, store |-> st, written |-> 0]
    ELSE LET cache_items == [i \in 1..Len(items) |-> CacheItem(items[i], t)]
             n == IF failAt = 0 THEN Len(items)
                  ELSE Min(Len(items), (failAt - 1) * BATCH_CHUNK)
         IN  [raised |-> failAt # 0,
              store |-> PutItems(st, SubSeq(cache_items, 1, n)),
              written |-> n]

\* the items of a set, ascending by date (DynamoDB answers a Query in sort-key order)
RECURSIVE SortedByDate(_)
SortedByDate(S) ==
    IF S = {} THEN <<>>
    ELSE LET m == CHOOSE x \in S : \A y \in S : x.date <= y.date
         IN  <<m>> \o SortedByDate(S \ {m})

\* the number of items that fit in the one page (1 MB) a Query answers; the
\* items of a full week of one ticker do not fit
PageCapacity == MaxDay - 1

\* response.get("Items", []) of one table.query call: the first page of the
\* matching items; the code does not follow LastEvaluatedKey
FirstPage(items) ==
    [i \in 1..Min(Len(items), PageCapacity) |-> items[i]]

\* query_stocks_by_date_range: Key("ticker").eq(ticker.upper()) &
\* Key("date").between(start_date, end_date)
query_stocks_by_date_range(st, ticker, start_date, end_date) ==
    FirstPage(SortedByDate({x \in st : /\ x.ticker = Upper(ticker)
                                       /\ start_date <= x.date
                                       /\ x.date <= end_date}))

\* sorted(cached_data, key=lambda x: x["date"])
RECURSIVE SortSeqByDate(_)
SortSeqByDate(s) ==
    IF Len(s) = 0 THEN <<>>
    ELSE LET i == CHOOSE k \in 1..Len(s) :
                    /\ \A j \in 1..Len(s) : s[k].date <= s[j].date
                    /\ \A j \in 1..(k - 1) : s[j].date # s[k].date
             rest == [j \in 1..(Len(s) - 1) |-> IF j < i THEN s[j] ELSE s[j + 1]]
         IN  <<s[i]>> \o SortSeqByDate(rest)

(***************************************************************************)
(* Upstream fetch with retry (services/yfinance_service.py)                *)
(***************************************************************************)
NotFoundMessage(ticker) ==
    "Ticker '" \o Str(ticker) \o "' not found or no data available"
\* str(e) of what stock.history raised, and the message of the 500 that wraps it
ProviderErrorMessage == "connection reset"
TransientErrorMessage == "timed out"
FetchFailedMessage == "Failed to fetch stock prices: " \o ProviderErrorMessage

\* str() of the exceptions a frame may raise while it is iterated: an exception
\* built without arguments has the empty string
FrameMessages == {"", "cannot convert float NaN to integer"}

\* What the provider does on one call of stock.history
UpstreamBehaviours ==
    {[kind |-> "data", msg |-> ""], [kind |-> "empty", msg |-> ""],
     [kind |-> "error", msg |-> ProviderErrorMessage]}
    \cup {[kind |-> "broken", msg |-> m] : m \in FrameMessages}

\* The body of fetch_stock_prices, one attempt, the provider behaving as u
FetchAttempt(u, ticker, start_date, end_date) ==
    IF u.kind = "error"
    THEN [raised |-> TRUE,
          exc |-> APIError("Failed to fetch stock prices: " \o u.msg, 500),
          value |-> Frame(<<>>, FALSE, "")]
    ELSE LET hist == IF u.kind = "empty" THEN Frame(<<>>, FALSE, "")
                     ELSE Frame(History(start_date, end_date), u.kind = "broken", u.msg)
         IN  IF Len(hist.rows) = 0
             THEN [raised |-> TRUE, exc |-> APIError(NotFoundMessage(ticker), 404),
                   value |-> Frame(<<>>, FALSE, "")]
             ELSE [raised |-> FALSE, exc |-> NoExc, value |-> hist]

\* a variant of IsClientError that leaves 404 to the retry loop
IsClientError_Below404(e) ==
    /\ e.type = "APIError"
    /\ e.status_code # 0
    /\ 400 <= e.status_code
    /\ e.status_code < 404

\* a variant of IsClientError that takes 429 for a client error too
IsClientError_With429(e) ==
    /\ e.type = "APIError"
    /\ e.status_code # 0
    /\ 400 <= e.status_code
    /\ e.status_code < 500

\* e.status_code and 400 <= e.status_code < 500 and e.status_code != 429
IsClientError(e) ==
    /\ e.type = "APIError"
    /\ e.status_code # 0
    /\ 400 <= e.status_code
    /\ e.status_code < 500
    /\ e.status_code # 429

RECURSIVE Power(_, _)
Power(b, n) == IF n = 0 THEN 1 ELSE b * Power(b, n - 1)

AttemptEvent(r) ==
    IF ~r.raised THEN "attempt_ok"
    ELSE IF r.exc.status_code = 404 THEN "attempt_404"
    ELSE "attempt_error"

\* a variant of RetryLoop that keeps the first error it saw as last_error
RECURSIVE RetryLoop_KeepsFirstError(_, _, _, _, _)
RetryLoop_KeepsFirstError(attempts, attempt, last_error, sleeps, calls) ==
    IF attempt > MAX_RETRIES
    THEN [raised |-> TRUE,
          exc |-> IF last_error.type # "none" THEN last_error
                  ELSE APIError("Unknown error", 500),
          value |-> Frame(<<>>, FALSE, ""), tries |-> attempt,
          sleeps |-> sleeps, calls |-> calls]
    ELSE LET r == attempts[attempt + 1]
             c == Append(calls, AttemptEvent(r))
             kept == IF last_error.type # "none" THEN last_error ELSE r.exc
         IN  IF ~r.raised
             THEN [raised |-> FALSE, exc |-> NoExc, value |-> r.value,
                   tries |-> attempt + 1, sleeps |-> sleeps, calls |-> c]
             ELSE IF IsClientError(r.exc)
             THEN [raised |-> TRUE, exc |-> r.exc, value |-> Frame(<<>>, FALSE, ""),
                   tries |-> attempt + 1, sleeps |-> sleeps, calls |-> c]
             ELSE IF attempt < MAX_RETRIES
             THEN RetryLoop_KeepsFirstError(attempts, attempt + 1, kept,
                            Append(sleeps, Power(BACKOFF_BASE, attempt + 1)),
                            Append(c, "sleep"))
             ELSE RetryLoop_KeepsFirstError(attempts, attempt + 1, kept, sleeps, c)

\* The wrapper of retry_with_backoff from loop index attempt on; attempts[i] is
\* a variant of RetryLoop whose delay grows by BACKOFF_BASE per retry
RECURSIVE RetryLoop_LinearBackoff(_, _, _, _, _)
RetryLoop_LinearBackoff(attempts, attempt, last_error, sleeps, calls) ==
    IF attempt > MAX_RETRIES
    THEN [raised |-> TRUE,
          exc |-> IF last_error.type # "none" THEN last_error
                  ELSE APIError("Unknown error", 500),
          value |-> Frame(<<>>, FALSE, ""), tries |-> attempt,
          sleeps |-> sleeps, calls |-> calls]
    ELSE LET r == attempts[attempt + 1]
             c == Append(calls, AttemptEvent(r))
         IN  IF ~r.raised
             THEN [raised |-> FALSE, exc |-> NoExc, value |-> r.value,
                   tries |-> attempt + 1, sleeps |-> sleeps, calls |-> c]
             ELSE IF IsClientError(r.exc)
             THEN [raised |-> TRUE, exc |-> r.exc, value |-> Frame(<<>>, FALSE, ""),
                   tries |-> attempt + 1, sleeps |-> sleeps, calls |-> c]
             ELSE IF attempt < MAX_RETRIES
             THEN RetryLoop_LinearBackoff(attempts, attempt + 1, r.exc,
                                          Append(sleeps, BACKOFF_BASE * (attempt + 1)),
                                          Append(c, "sleep"))
             ELSE RetryLoop_LinearBackoff(attempts, attempt + 1, r.exc, sleeps, c)

\* what the i-th call of the wrapped function does
RECURSIVE RetryLoop(_, _, _, _, _)
RetryLoop(attempts, attempt, last_error, sleeps, calls) ==
    IF attempt > MAX_RETRIES
    THEN [raised |-> TRUE,
          exc |-> IF last_error.type # "none" THEN last_error
                  ELSE APIError("Unknown error", 500),
          value |-> Frame(<<>>, FALSE, ""), tries |-> attempt,
          sleeps |-> sleeps, calls |-> calls]
    ELSE LET r == attempts[attempt + 1]
             c == Append(calls, AttemptEvent(r))
         IN  IF ~r.raised
             THEN [raised |-> FALSE, exc |-> NoExc, value |-> r.value,
                   tries |-> attempt + 1, sleeps |-> sleeps, calls |-> c]
             ELSE IF IsClientError(r.exc)
             THEN [raised |-> TRUE, exc |-> r.exc, value |-> Frame(<<>>, FALSE, ""),
                   tries |-> attempt + 1, sleeps |-> sleeps, calls |-> c]
             ELSE IF attempt < MAX_RETRIES
             THEN RetryLoop(attempts, attempt + 1, r.exc,
                            Append(sleeps, Power(BACKOFF_BASE, attempt + 1)),
                            Append(c, "sleep"))
             ELSE RetryLoop(attempts, attempt + 1, r.exc, sleeps, c)

retry_with_backoff(attempts) == RetryLoop(attempts, 0, NoExc, <<>>, <<>>)

\* The provider's behaviour over the calls of one decorated fetch: k transient
\* failures, then the behaviour u for good
Script(k, u) ==
    [i \in 1..(MAX_RETRIES + 1) |->
        IF i <= k THEN [kind |-> "error", msg |-> TransientErrorMessage] ELSE u]

FetchScripts ==
    {Script(k, u) : k \in 0..MaxFlaky, u \in UpstreamBehaviours}

\* the scripts without transient failures that a retry hides: what the batch
\* coordinator can tell apart
SteadyScripts == {Script(0, u) : u \in UpstreamBehaviours}

\* fetch_stock_prices(ticker, start_date, end_date), decorated, under a script
fetch_stock_prices(script, ticker, start_date, end_date) ==
    LET r == retry_with_backoff(
                 [i \in 1..Len(script) |-> FetchAttempt(script[i], ticker, start_date,
                                                     end_date)])
    IN  [r EXCEPT !.calls = <<"fetch_stock_prices">> \o r.calls]

\* what stock.info answers: a quote with a short name, a quote without names,
\* nothing usable (no regularMarketPrice), or an error of the provider
InfoBehaviours ==
    {[kind |-> "info", msg |-> "Ford Motor"], [kind |-> "info", msg |-> ""],
     [kind |-> "noinfo", msg |-> ""], [kind |-> "error", msg |-> ProviderErrorMessage]}

Info(short_name) == [shortName |-> short_name, longName |-> "", exchange |-> "NYQ"]

\* one undecorated call of fetch_symbol_metadata
MetadataAttempt(u, ticker) ==
    IF u.kind = "error"
    THEN [raised |-> TRUE,
          exc |-> APIError("Failed to fetch metadata: " \o u.msg, 500),
          value |-> Info("")]
    ELSE IF u.kind = "noinfo"
    THEN [raised |-> TRUE,
          exc |-> APIError("Ticker '" \o Str(ticker) \o "' not found", 404),
          value |-> Info("")]
    ELSE [raised |-> FALSE, exc |-> NoExc, value |-> Info(u.msg)]

MetadataScripts == {Script(k, u) : k \in 0..MaxFlaky, u \in InfoBehaviours}

\* fetch_symbol_metadata(ticker), decorated, under a script
fetch_symbol_metadata(script, ticker) ==
    LET r == retry_with_backoff(
                 [i \in 1..Len(script) |-> MetadataAttempt(script[i], ticker)])
    IN  [r EXCEPT !.calls = <<"fetch_symbol_metadata">> \o r.calls]

\* transform_info_to_metadata(info, ticker)
transform_info_to_metadata(info, ticker) ==
    [ticker |-> Str(Upper(ticker)),
     name |-> IF info.shortName # "" THEN info.shortName
              ELSE IF info.longName # "" THEN info.longName
              ELSE Str(ticker),
     exchangeCode |-> info.exchange, startDate |-> "", endDate |-> "",
     description |-> ""]

(***************************************************************************)
(* Single-symbol pipeline (handlers/stocks.py)                             *)
(***************************************************************************)
\* a ratio num/den; the handler's literal 0 is Rate(0, 1)
Rate(n, d) == [num |-> n, den |-> d]

\* r > n/d
RateGreater(r, n, d) == r.num * d > n * r.den

\* what one call of handle_prices_request did: it returned or raised, the store
\* it left, the collaborator calls in order, the items handed to
\* batch_put_stocks, the items the range query answered, and whether the range
\* query or the batch write raised
PricesReturn(data, was_cached, rate, st, calls, put, queried) ==
    [kind |-> "return", data |-> data, cached |-> was_cached, cacheHitRate |-> rate,
     exc |-> NoExc, store |-> st, calls |-> calls, put |-> put, queried |-> queried,
     query_raised |-> FALSE, put_raised |-> FALSE]

PricesRaise(exc, st, calls, queried) ==
    [kind |-> "raise", data |-> <<>>, cached |-> FALSE, cacheHitRate |-> Rate(0, 1),
     exc |-> exc, store |-> st, calls |-> calls, put |-> <<>>, queried |-> queried,
     query_raised |-> FALSE, put_raised |-> FALSE]

\* a variant of ExpectedTradingDays that takes the difference of the dates as
\* the number of calendar days
ExpectedTradingDays_DaysBetween(start_date, effective_end_date) ==
    Max(1, IntTrunc((effective_end_date - start_date) * 5, 7))

\* max(1, int(calendar_days * 5 / 7)), calendar_days = (end - start).days + 1
ExpectedTradingDays(start_date, effective_end_date) ==
    LET calendar_days == (effective_end_date - start_date) + 1
    IN  Max(1, IntTrunc(calendar_days * 5, 7))

\* len(cached_data) / expected_trading_days if expected_trading_days > 0 else 0
CacheHitRate(cached_data, expected_trading_days) ==
    IF expected_trading_days > 0 THEN Rate(Len(cached_data), expected_trading_days)
    ELSE Rate(0, 1)

\* a variant of CacheSufficient that serves the cache at exactly 0.8
CacheSufficient_AtThreshold(cache_hit_rate, cached_data) ==
    ~RateGreater(Rate(8, 10), cache_hit_rate.num, cache_hit_rate.den)
    /\ Len(cached_data) > 0

\* cache_hit_rate > 0.8 and cached_data
CacheSufficient(cache_hit_rate, cached_data) ==
    RateGreater(cache_hit_rate, 8, 10) /\ Len(cached_data) > 0

\* a variant of CacheHitData that leaves out the latest cached item
CacheHitData_DropsLast(cached_data) ==
    LET sorted_data == SortSeqByDate(cached_data)
    IN  [i \in 1..(Len(sorted_data) - 1) |-> CachedRecord(sorted_data[i])]

\* a variant of CacheHitData that keeps the order in which the store answered
CacheHitData_AsReturned(cached_data) ==
    [i \in 1..Len(cached_data) |-> CachedRecord(cached_data[i])]

\* the data of the cache-hit branch: one record per cached item, by date
CacheHitData(cached_data) ==
    LET sorted_data == SortSeqByDate(cached_data)
    IN  [i \in 1..Len(sorted_data) |-> CachedRecord(sorted_data[i])]

\* the cache_items the handler builds from the fetched records
CacheItemsOf(ticker, data) ==
    [i \in 1..Len(data) |->
        [ticker |-> ticker, date |-> DatePrefix(data[i].date),
         priceData |-> PriceDataOf(data[i])]]

\* a variant of PricesFallback that lets the caught exception through
PricesFallback_Reraises(st, ticker, start_date, effective_end_date, calls, queried, scripts) ==
    {PricesRaise(StoreError, st, calls, queried)}

\* the except Exception branch: fetch again, normalise, return uncached with rate 0
PricesFallback(st, ticker, start_date, effective_end_date, calls, queried, scripts) ==
    {LET f == fetch_stock_prices(sc, ticker, start_date, effective_end_date)
         t == transform_history_to_tiingo(f.value)
         c == calls \o f.calls
     IN  IF f.raised THEN PricesRaise(f.exc, st, c, queried)
         ELSE IF t.raised
         THEN PricesRaise(t.exc, st, Append(c, "transform_history_to_tiingo"), queried)
         ELSE PricesReturn(t.data, FALSE, Rate(0, 1), st,
                           Append(c, "transform_history_to_tiingo"), <<>>, queried)
     : sc \in scripts}

\* a variant of CacheWriteBack without the try around batch_put_stocks
CacheWriteBack_Unguarded(st, ticker, data, t0, failAt) ==
    IF Len(data) = 0
    THEN [store |-> st, put |-> <<>>, called |-> FALSE, put_raised |-> FALSE,
          escapes |-> FALSE]
    ELSE LET cache_items == CacheItemsOf(ticker, data)
             w == batch_put_stocks(st, cache_items, t0, failAt)
         IN  [store |-> w.store, put |-> cache_items, called |-> TRUE,
              put_raised |-> w.raised, escapes |-> w.raised]

\* "if data: try: ... batch_put_stocks(cache_items) except Exception: log": the
\* store it leaves, the items it submitted, whether the write raised and whether
\* an exception escapes it
CacheWriteBack(st, ticker, data, t0, failAt) ==
    IF Len(data) = 0
    THEN [store |-> st, put |-> <<>>, called |-> FALSE, put_raised |-> FALSE,
          escapes |-> FALSE]
    ELSE LET cache_items == CacheItemsOf(ticker, data)
             w == batch_put_stocks(st, cache_items, t0, failAt)
         IN  [store |-> w.store, put |-> cache_items, called |-> TRUE,
              put_raised |-> w.raised, escapes |-> FALSE]

\* the cache-miss branch, from the fetch on; an exception other than APIError
\* that escapes a statement of the try block lands in the except Exception branch
PricesMiss(st, t0, ticker, start_date, effective_end_date, rate, calls, queried, scripts) ==
    UNION {
      LET f == fetch_stock_prices(sc, ticker, start_date, effective_end_date)
          t == transform_history_to_tiingo(f.value)
          c == calls \o f.calls
          ct == Append(c, "transform_history_to_tiingo")
      IN  IF f.raised
          THEN IF f.exc.type = "APIError" THEN {PricesRaise(f.exc, st, c, queried)}
               ELSE PricesFallback(st, ticker, start_date, effective_end_date, c, queried, scripts)
          ELSE IF t.raised
          THEN PricesFallback(st, ticker, start_date, effective_end_date, ct, queried, scripts)
          ELSE UNION {
                 LET w == CacheWriteBack(st, ticker, t.data, t0, failAt)
                     cw == IF w.called THEN Append(ct, "batch_put_stocks") ELSE ct
                 IN  IF w.escapes
                     THEN {[o EXCEPT !.put_raised = TRUE] :
                             o \in PricesFallback(w.store, ticker, start_date, effective_end_date,
                                                  cw, queried, scripts)}
                     ELSE {[PricesReturn(t.data, FALSE, rate, w.store, cw, w.put, queried)
                               EXCEPT !.put_raised = w.put_raised]}
                 : failAt \in 0..NumChunks(Len(t.data))}
      : sc \in scripts}

\* handle_prices_request(ticker, start_date, end_date) on store st at time t0,
\* the provider following one of scripts on each fetch: the set of things it can do
handle_prices_request(st, t0, ticker, start_date, end_date, scripts) ==
    LET effective_end_date == IF end_date # NoDate THEN end_date ELSE Today(t0)
        q == <<"query_stocks_by_date_range">>
        cached_data == query_stocks_by_date_range(st, ticker, start_date,
                                                  effective_end_date)
        expected_trading_days == ExpectedTradingDays(start_date, effective_end_date)
        cache_hit_rate == CacheHitRate(cached_data, expected_trading_days)
        data == CacheHitData(cached_data)
    IN  \* the range query raises
        {[o EXCEPT !.query_raised = TRUE] :
            o \in PricesFallback(st, ticker, start_date, effective_end_date, q, <<>>, scripts)}
        \cup
        \* the range query answers
        (IF ~(StrptimeOk(start_date) /\ StrptimeOk(effective_end_date))
         THEN PricesFallback(st, ticker, start_date, effective_end_date, q, cached_data, scripts)
         ELSE IF CacheSufficient(cache_hit_rate, cached_data)
         THEN {PricesReturn(data, TRUE, cache_hit_rate, st, q, <<>>, cached_data)}
         ELSE PricesMiss(st, t0, ticker, start_date, effective_end_date,
                         cache_hit_rate, q, cached_data, scripts))

\* the cacheHitRate of a result that has none: result.get("cacheHitRate") is None
NoRate == [num |-> 0, den |-> 0]

\* handle_metadata_request(ticker), the provider following one of scripts: the set
\* of things it can do
handle_metadata_request(st, ticker, scripts) ==
    {LET f == fetch_symbol_metadata(sc, ticker)
     IN  IF f.raised THEN PricesRaise(f.exc, st, f.calls, <<>>)
         ELSE PricesReturn(transform_info_to_metadata(f.value, ticker), FALSE, NoRate,
                           st, Append(f.calls, "transform_info_to_metadata"), <<>>, <<>>)
     : sc \in scripts}

(***************************************************************************)
(* handle_stocks_request (handlers/stocks.py) and the responses            *)
(***************************************************************************)
NoOutcome == [kind |-> "none"]
NoResponse == [statusCode |-> 0]

\* success_response(result["data"], extra={"_meta": {cached, cacheHitRate}})
success_response(data, was_cached, rate) ==
    [statusCode |-> 200, error |-> "", data |-> data, cached |-> was_cached,
     cacheHitRate |-> rate]

\* error_response(message, status_code)
error_response(message, status_code) ==
    [statusCode |-> status_code, error |-> message, data |-> <<>>, cached |-> FALSE,
     cacheHitRate |-> Rate(0, 1)]

\* The validation of handle_stocks_request: the message of the 400 it answers,
\* or "" when the request passes
StocksValidationError(req) ==
    LET ticker == Upper(req.ticker)
    IN  IF Len(ticker) = 0 THEN "Missing required parameter: ticker"
        ELSE IF ~TickerPatternMatch(ticker)
        THEN "Invalid ticker format. Must contain only letters, numbers, dots, and hyphens."
        ELSE IF req.type \notin {"prices", "metadata"}
        THEN "Invalid type. Must be \"prices\" or \"metadata\"."
        ELSE IF req.type # "prices" THEN ""
        ELSE IF req.startDate = NoDate THEN "Missing required parameter for prices: startDate"
        ELSE IF ~DatePatternMatch(req.startDate) THEN "Invalid startDate format. Must be YYYY-MM-DD."
        ELSE IF req.endDate # NoDate /\ ~DatePatternMatch(req.endDate)
        THEN "Invalid endDate format. Must be YYYY-MM-DD."
        ELSE IF req.endDate # NoDate /\ req.startDate > req.endDate
        THEN "Invalid date range. startDate must be before or equal to endDate."
        ELSE ""

\* a variant of StocksResponse that answers every exception with a 500
StocksResponse_AlwaysInternal(o) ==
    IF o.kind = "return" THEN success_response(o.data, o.cached, o.cacheHitRate)
    ELSE error_response("Internal server error", 500)

\* The response handle_stocks_request makes of what the routed handler did
StocksResponse(o) ==
    IF o.kind = "return" THEN success_response(o.data, o.cached, o.cacheHitRate)
    ELSE IF o.exc.type = "APIError" THEN error_response(o.exc.message, o.exc.status_code)
    ELSE error_response("Internal server error", 500)

\* handle_stocks_request(event)
HandleStocksRequest ==
    /\ pc = "start"
    /\ request.kind = "stocks"
    /\ pc' = "done"
    /\ IF StocksValidationError(request) # ""
       THEN /\ response' = error_response(StocksValidationError(request), 400)
            /\ outcome' = NoOutcome
            /\ store' = store
       ELSE \E o \in IF request.type = "metadata"
                      THEN handle_metadata_request(store, Upper(request.ticker),
                                                   MetadataScripts)
                      ELSE handle_prices_request(store, now, Upper(request.ticker),
                                                 request.startDate, request.endDate,
                                                 FetchScripts) :
                /\ outcome' = o
                /\ store' = o.store
                /\ response' = StocksResponse(o)
    /\ UNCHANGED <<now, request, futures, results, errors, cached, dynamodb>>

(***************************************************************************)
(* Initial states                                                          *)
(***************************************************************************)
SymF == <<"F">>
SymT == <<"T">>

\* the ticker parameters tried: absent, well formed, lower case, ending in a
\* newline, holding a blank
TickerInputs == {<<>>, SymF, <<"f">>, <<"F", "\n">>, <<"F", " ">>}

DateInputs == {NoDate, Malformed} \cup DateStrings

\* the clock: one hour into the day before MaxDay
InitialNow == (MaxDay - 1) * SecondsPerDay + 3600

\* an item an earlier request cached for day d, not yet expired
StoredItem(ticker, d) ==
    [ticker |-> ticker, date |-> d, priceData |-> PriceDataOf(TransformRow(UpstreamRow(d))),
     ttl |-> InitialNow + TTL_CURRENT - 60, fetchedAt |-> (InitialNow - 60) * 1000]

\* the table holds one item of another ticker and any set of days of ticker F
InitialStores ==
    {{StoredItem(SymT, 1)} \cup {StoredItem(SymF, d) : d \in S} : S \in SUBSET Days}

StocksRequests ==
    {[kind |-> "stocks", ticker |-> t, tickers |-> <<>>, startDate |-> s,
      endDate |-> e, type |-> "prices"] :
        t \in TickerInputs, s \in DateInputs, e \in DateInputs}
    \cup {[kind |-> "stocks", ticker |-> SymF, tickers |-> <<>>, startDate |-> 1,
           endDate |-> 1, type |-> "bogus"]}
    \cup {[kind |-> "stocks", ticker |-> t, tickers |-> <<>>, startDate |-> NoDate,
           endDate |-> NoDate, type |-> "metadata"] : t \in TickerInputs}

EmptyDict == <<>>

InitPrices ==
    /\ request \in StocksRequests
    /\ store \in IF request.ticker = SymF THEN InitialStores
                 ELSE {{StoredItem(SymT, 1)}, {StoredItem(SymT, 1)} \cup {StoredItem(SymF, d) : d \in Days}}
    /\ now = InitialNow
    /\ pc = "start"
    /\ response = NoResponse
    /\ outcome = NoOutcome
    /\ futures = <<>>
    /\ results = EmptyDict
    /\ errors = EmptyDict
    /\ cached = EmptyDict
    /\ dynamodb = WarmHandle

NextPrices == HandleStocksRequest

SpecPrices == InitPrices /\ [][NextPrices]_vars

(***************************************************************************)
(* Batch coordinator (handlers/batch.py)                                   *)
(***************************************************************************)
\* Python values that may be None
None == [none |-> TRUE, value |-> <<>>]
Some(v) == [none |-> FALSE, value |-> v]

\* truth value of an error entry: None and "" are both false
Truthy(error) == ~error.none /\ error.value # ""

\* d[k] = v on a dict
DictSet(d, k, v) == [x \in (DOMAIN d) \cup {k} |-> IF x = k THEN v ELSE d[x]]

\* The validation of handle_batch_stocks_request: the message of the 400 it
\* answers, or "" when the request passes
BatchValidationError(req) ==
    LET tickers == req.tickers
    IN  IF Len(tickers) = 0 THEN "Missing required field: tickers"
        ELSE IF Len(tickers) > MAX_TICKERS
        THEN "Too many tickers. Maximum is " \o ToString(MAX_TICKERS) \o "."
        ELSE IF \E i \in 1..Len(tickers) : ~TickerPatternMatch(Upper(tickers[i]))
        THEN LET i == CHOOSE k \in 1..Len(tickers) :
                        /\ ~TickerPatternMatch(Upper(tickers[k]))
                        /\ \A j \in 1..(k - 1) : TickerPatternMatch(Upper(tickers[j]))
             IN  "Invalid ticker format: " \o Str(Upper(tickers[i]))
                 \o ". Must contain only letters, numbers, dots, and hyphens."
        ELSE IF req.startDate = NoDate THEN "Missing required field: startDate"
        ELSE IF ~DatePatternMatch(req.startDate) THEN "Invalid startDate format. Must be YYYY-MM-DD."
        ELSE IF req.endDate # NoDate /\ ~DatePatternMatch(req.endDate)
        THEN "Invalid endDate format. Must be YYYY-MM-DD."
        ELSE IF req.endDate # NoDate /\ req.startDate > req.endDate
        THEN "Invalid date range. startDate must be before or equal to endDate."
        ELSE ""

\* normalized_tickers
NormalizedTickers(req) == [i \in 1..Len(req.tickers) |-> Upper(req.tickers[i])]

\* a variant of fetch_ticker without the except Exception clause
fetch_ticker_Uncaught(ticker, o) ==
    IF o.kind = "return"
    THEN [raised |-> FALSE, ticker |-> ticker, data |-> Some(o.data), error |-> None,
          was_cached |-> o.cached]
    ELSE IF o.exc.type = "APIError"
    THEN [raised |-> FALSE, ticker |-> ticker, data |-> None,
          error |-> Some(o.exc.message), was_cached |-> FALSE]
    ELSE [raised |-> TRUE, ticker |-> ticker, data |-> None,
          error |-> Some(StrOfExc(o.exc)), was_cached |-> FALSE]

\* fetch_ticker(ticker): the tuple it returns for what handle_prices_request did
fetch_ticker(ticker, o) ==
    IF o.kind = "return"
    THEN [raised |-> FALSE, ticker |-> ticker, data |-> Some(o.data), error |-> None,
          was_cached |-> o.cached]
    ELSE IF o.exc.type = "APIError"
    THEN [raised |-> FALSE, ticker |-> ticker, data |-> None,
          error |-> Some(o.exc.message), was_cached |-> FALSE]
    ELSE [raised |-> FALSE, ticker |-> ticker, data |-> None,
          error |-> Some(StrOfExc(o.exc)), was_cached |-> FALSE]

\* a variant of MaxWorkers that gives every ticker its own thread
MaxWorkers_Uncapped(n) == n

\* max_workers of the ThreadPoolExecutor
MaxWorkers(n) == Min(n, POOL_CAP)

StateCount(fs, st) == Cardinality({i \in 1..Len(fs) : fs[i].state = st})

\* handle_batch_stocks_request up to the submission of the tasks: a 400, or one
\* future per normalized ticker
BatchValidate ==
    /\ pc = "start"
    /\ request.kind = "batch"
    /\ IF BatchValidationError(request) # ""
       THEN /\ response' = error_response(BatchValidationError(request), 400)
            /\ pc' = "done"
            /\ futures' = futures
       ELSE /\ futures' = [i \in 1..Len(request.tickers) |->
                              [ticker |-> NormalizedTickers(request)[i],
                               state |-> "pending", result |-> None, calls |-> {}]]
            /\ pc' = "pool"
            /\ response' = response
    /\ UNCHANGED <<store, now, request, outcome, results, errors, cached, dynamodb>>

\* a pool thread takes the next task of the work queue
TaskStart(i) ==
    /\ pc \in {"pool", "aborted"}
    /\ futures[i].state = "pending"
    /\ \A j \in 1..(i - 1) : futures[j].state # "pending"
    /\ StateCount(futures, "running") < MaxWorkers(Len(futures))
    /\ futures' = [futures EXCEPT ![i].state = "running"]
    /\ UNCHANGED <<store, now, request, pc, response, outcome, results, errors, cached, dynamodb>>

\* the handler-level collaborator calls of a pipeline, as a set of names
CallSet(calls) ==
    {calls[i] : i \in 1..Len(calls)}
    \cap {"query_stocks_by_date_range", "fetch_stock_prices",
          "transform_history_to_tiingo", "batch_put_stocks"}

\* the body of the as_completed loop for the tuple r of a finished future
CollectResult(r, res, errs, flags) ==
    IF Truthy(r.error)
    THEN [results |-> res, errors |-> DictSet(errs, r.ticker, r.error.value),
          cached |-> flags]
    ELSE [results |-> DictSet(res, r.ticker, r.data), errors |-> errs,
          cached |-> DictSet(flags, r.ticker, r.was_cached)]

\* The thread runs fetch_ticker(ticker) to its end and the as_completed loop takes
\* its turn for that future.  The loop's turn touches only the handler's own
\* dicts, so it commutes with every step of the other threads and is joined to
\* the step that completes the future; futures complete in any order.
TaskFinish(i) ==
    /\ pc \in {"pool", "aborted"}
    /\ futures[i].state = "running"
    /\ \E x \in {[r |-> fetch_ticker(futures[i].ticker, o), store |-> o.store,
                  calls |-> CallSet(o.calls)] :
                    o \in handle_prices_request(store, now, futures[i].ticker,
                                                request.startDate, request.endDate,
                                                SteadyScripts)} :
          LET c == CollectResult(x.r, results, errors, cached)
          IN  /\ store' = x.store
              /\ futures' = [futures EXCEPT ![i].state = "done",
                                            ![i].result = Some(x.r),
                                            ![i].calls = x.calls]
              /\ IF pc = "aborted" THEN UNCHANGED <<pc, results, errors, cached>>
                 ELSE IF x.r.raised
                 THEN pc' = "aborted" /\ UNCHANGED <<results, errors, cached>>
                 ELSE /\ results' = c.results
                      /\ errors' = c.errors
                      /\ cached' = c.cached
                      /\ pc' = pc
    /\ UNCHANGED <<now, request, response, outcome, dynamodb>>

\* the response body with its _meta
BatchResponse(res, errs, flags) ==
    [statusCode |-> 200, error |-> "", data |-> res, errors |-> errs,
     successCount |-> Cardinality(DOMAIN res), errorCount |-> Cardinality(DOMAIN errs),
     cached |-> flags]

\* the executor has shut down (every task ran): build the response, or answer
\* 500 when the loop was left by an exception
BatchRespond ==
    /\ pc \in {"pool", "aborted"}
    /\ \A i \in 1..Len(futures) : futures[i].state = "done"
    /\ response' = IF pc = "pool" THEN BatchResponse(results, errors, cached)
                   ELSE error_response("Internal server error", 500)
    /\ pc' = "done"
    /\ UNCHANGED <<store, now, request, outcome, futures, results, errors, cached, dynamodb>>

SymFT == <<"F", "T">>
SymbolOrder == <<SymF, SymT, SymFT>>

\* the lists of n symbols taken in the order of SymbolOrder, each symbol any
\* number of times, the first symbol being SymbolOrder[k] or a later one
RECURSIVE ListsFrom(_, _)
ListsFrom(k, n) ==
    IF n = 0 THEN {<<>>}
    ELSE UNION {{<<SymbolOrder[j]>> \o q : q \in ListsFrom(j, n - 1)} :
                    j \in k..Len(SymbolOrder)}

\* ticker lists: the lists of 1..MaxBatch symbols; the empty list; a list of
\* MAX_TICKERS + 1 symbols; a list with a blank in a ticker; a list whose ticker
\* ends in a newline; a list naming one symbol in two letter cases
TickerLists ==
    (UNION {ListsFrom(1, n) : n \in 1..MaxBatch})
    \cup {<<>>,
          [i \in 1..(MAX_TICKERS + 1) |-> SymF],
          <<SymF, <<"F", " ">>>>,
          <<<<"F", "\n">>>>,
          <<<<"f">>, SymF>>}

\* the store of a batch: ticker T is cached for day 1, the other tickers are not
\* cached until a task of the batch writes them back
BatchStores == {{StoredItem(SymT, 1)}}

BatchDates ==
    {<<1, 2>>, <<2, 1>>, <<NoDate, 2>>, <<Malformed, 2>>, <<1, Malformed>>}

\* a list of one ticker more than the pool has threads, asked for a weekend: no
\* day of the range is a trading day, each pipeline ends in a 404 or a 500
LongTickerList == [i \in 1..(POOL_CAP + 1) |-> SymbolOrder[1 + (i % Len(SymbolOrder))]]
WeekendDates == <<6, 7>>

InitBatch ==
    /\ request \in {[kind |-> "batch", ticker |-> <<>>, tickers |-> l,
                     startDate |-> d[1], endDate |-> d[2], type |-> "prices"] :
                       l \in TickerLists, d \in BatchDates}
                   \cup {[kind |-> "batch", ticker |-> <<>>, tickers |-> LongTickerList,
                          startDate |-> WeekendDates[1], endDate |-> WeekendDates[2],
                          type |-> "prices"]}
    /\ store \in BatchStores
    /\ now = InitialNow
    /\ pc = "start"
    /\ response = NoResponse
    /\ outcome = NoOutcome
    /\ futures = <<>>
    /\ results = EmptyDict
    /\ errors = EmptyDict
    /\ cached = EmptyDict
    /\ dynamodb = WarmHandle

NextBatch ==
    \/ BatchValidate
    \/ \E i \in 1..Len(futures) : TaskStart(i)
    \/ \E i \in 1..Len(futures) : TaskFinish(i)
    \/ BatchRespond

SpecBatch == InitBatch /\ [][NextBatch]_vars

(***************************************************************************)
(* The record store over time: writes, the clock, the table's expiry sweep *)
(* and price requests served from what the table holds                     *)
(***************************************************************************)
\* put_stock(item) at time t; the put raises (and is re-raised) or replaces the item
put_stock(st, item, t, fails) ==
    IF fails THEN [raised |-> TRUE, store |-> st]
    ELSE [raised |-> FALSE, store |-> PutItem(st, CacheItem(item, t))]

\* a variant of get_stock that looks the ticker up as it was given
get_stock_CaseSensitive(st, ticker, date) ==
    LET found == {x \in st : x.ticker = ticker /\ x.date = date}
    IN  IF found = {} THEN None ELSE Some(CHOOSE x \in found : TRUE)

\* get_stock(ticker, date): response.get("Item") of
\* get_item(Key={"ticker": ticker.upper(), "date": date})
get_stock(st, ticker, date) ==
    LET found == {x \in st : x.ticker = Upper(ticker) /\ x.date = date}
    IN  IF found = {} THEN None ELSE Some(CHOOSE x \in found : TRUE)

\* the clock of the store history starts one hour into the day after MaxDay
StoreStartNow == (MaxDay + 1) * SecondsPerDay + 3600

\* two priceData values a caller may write
PriceA == PriceDataOf(TransformRow(UpstreamRow(1)))
PriceB == PriceDataOf(TransformRow(UpstreamRow(3)))

\* dates of the items written: two calendar dates and a string that is no date
StoreDateInputs == {1, 2, Malformed}

StoreItemInputs ==
    {[ticker |-> tk, date |-> d, priceData |-> p] :
        tk \in {SymF, <<"f">>}, d \in StoreDateInputs, p \in {PriceA, PriceB}}

\* lists handed to batch_put_stocks: the empty list and lists of two items of
\* distinct dates
StoreBatchInputs ==
    {<<>>}
    \cup {<<[ticker |-> SymF, date |-> 1, priceData |-> p],
            [ticker |-> tk, date |-> d, priceData |-> PriceA]>> :
            p \in {PriceA, PriceB}, tk \in {SymF, <<"f">>}, d \in {2, Malformed}}

StoreRequest(kind, items) ==
    [kind |-> kind, ticker |-> SymF, tickers |-> <<>>, startDate |-> 1, endDate |-> 2,
     type |-> "prices", items |-> items]

StoreResult(raised) == [statusCode |-> 0, raised |-> raised]

\* a caller runs put_stock(item)
StorePut ==
    /\ pc = "store"
    /\ \E item \in StoreItemInputs, fails \in BOOLEAN :
          LET w == put_stock(store, item, now, fails)
          IN  /\ store' = w.store
              /\ request' = StoreRequest("put_stock", <<item>>)
              /\ response' = StoreResult(w.raised)
    /\ outcome' = NoOutcome
    /\ UNCHANGED <<now, pc, futures, results, errors, cached, dynamodb>>

\* a caller runs batch_put_stocks(items)
StoreBatchPut ==
    /\ pc = "store"
    /\ \E items \in StoreBatchInputs, failAt \in 0..1 :
          LET w == batch_put_stocks(store, items, now, IF Len(items) = 0 THEN 0 ELSE failAt)
          IN  /\ store' = w.store
              /\ request' = StoreRequest("batch_put_stocks", items)
              /\ response' = StoreResult(w.raised)
    /\ outcome' = NoOutcome
    /\ UNCHANGED <<now, pc, futures, results, errors, cached, dynamodb>>

\* a caller runs get_stock(ticker, date)
StoreGet ==
    /\ pc = "store"
    /\ \E tk \in {SymF, <<"f">>}, d \in StoreDateInputs :
          /\ request' = StoreRequest("get_stock", <<[ticker |-> tk, date |-> d]>>)
          /\ response' = [statusCode |-> 0, raised |-> FALSE,
                          item |-> get_stock(store, tk, d)]
    /\ outcome' = NoOutcome
    /\ UNCHANGED <<store, now, pc, futures, results, errors, cached, dynamodb>>

\* a day passes
StoreTick ==
    /\ pc = "store"
    /\ now < StoreStartNow + MaxTick * SecondsPerDay
    /\ now' = now + SecondsPerDay
    /\ request' = StoreRequest("tick", <<>>)
    /\ response' = StoreResult(FALSE)
    /\ outcome' = NoOutcome
    /\ UNCHANGED <<store, pc, futures, results, errors, cached, dynamodb>>

\* the table's background expiry deletes an item whose ttl has passed, at some
\* time after it has passed
StoreSweep ==
    /\ pc = "store"
    /\ \E x \in store :
          /\ x.ttl <= now
          /\ store' = store \ {x}
    /\ request' = StoreRequest("sweep", <<>>)
    /\ response' = StoreResult(FALSE)
    /\ outcome' = NoOutcome
    /\ UNCHANGED <<now, pc, futures, results, errors, cached, dynamodb>>

\* handle_prices_request("F", day 1, day 2) on what the table holds now
StoreServePrices ==
    /\ pc = "store"
    /\ \E o \in handle_prices_request(store, now, SymF, 1, 2, SteadyScripts) :
          /\ outcome' = o
          /\ store' = o.store
          /\ response' = StoreResult(o.kind = "raise")
    /\ request' = StoreRequest("prices", <<>>)
    /\ UNCHANGED <<now, pc, futures, results, errors, cached, dynamodb>>

InitStore ==
    /\ store = {}
    /\ now = StoreStartNow
    /\ pc = "store"
    /\ request = StoreRequest("none", <<>>)
    /\ response = StoreResult(FALSE)
    /\ outcome = NoOutcome
    /\ futures = <<>>
    /\ results = EmptyDict
    /\ errors = EmptyDict
    /\ cached = EmptyDict
    /\ dynamodb = WarmHandle

NextStore ==
    \/ StorePut
    \/ StoreBatchPut
    \/ StoreGet
    \/ StoreTick
    \/ StoreSweep
    \/ StoreServePrices

SpecStore == InitStore /\ [][NextStore]_vars

(***************************************************************************)
(* batch_put_stocks on lists of every length up to two full write groups   *)
(* and one item (repositories/stocks_cache.py)                             *)
(***************************************************************************)
MaxItems == 2 * BATCH_CHUNK + 1

\* the list of n items a caller hands over: ticker f, one item per date 1..n
ItemList(n) == [d \in 1..n |-> [ticker |-> <<"f">>, date |-> d, priceData |-> PriceA]]

\* the table is empty, or holds items of the first two dates written an hour ago
ChunkInitialStores ==
    {{}, {[CacheItem([ticker |-> SymF, date |-> d, priceData |-> PriceB], StoreStartNow - 3600)
            EXCEPT !.ttl = StoreStartNow + TTL_CURRENT] : d \in 1..2}}

\* a caller runs batch_put_stocks(items); write group failAt fails (0: none)
ChunkedBatchPut ==
    /\ pc = "chunks"
    /\ \E n \in 0..MaxItems :
         \E failAt \in 0..NumChunks(n) :
            LET items == ItemList(n)
                w == batch_put_stocks(store, items, now, failAt)
                groups == WriteGroups([i \in 1..n |-> CacheItem(items[i], now)])
                sent == IF failAt = 0 THEN Len(groups) ELSE failAt
            IN  /\ store' = w.store
                /\ request' = StoreRequest("batch_put_stocks", items)
                /\ response' = [statusCode |-> 0, raised |-> w.raised,
                                groups |-> SubSeq(groups, 1, sent)]
    /\ pc' = "done"
    /\ UNCHANGED <<now, outcome, futures, results, errors, cached, dynamodb>>

InitChunks ==
    /\ store \in ChunkInitialStores
    /\ now = StoreStartNow
    /\ pc = "chunks"
    /\ request = StoreRequest("none", <<>>)
    /\ response = [statusCode |-> 0, raised |-> FALSE, groups |-> <<>>]
    /\ outcome = NoOutcome
    /\ futures = <<>>
    /\ results = EmptyDict
    /\ errors = EmptyDict
    /\ cached = EmptyDict
    /\ dynamodb = WarmHandle

NextChunks == ChunkedBatchPut

SpecChunks == InitChunks /\ [][NextChunks]_vars

(***************************************************************************)
(* Earnings cache (repositories/earnings_cache.py), earnings service       *)
(* (services/earnings_service.py) and GET /earnings (handlers/earnings.py) *)
(***************************************************************************)
TTL_SECONDS == 86400
EMPTY_SENTINEL_SK == "DATE#_EMPTY"

\* the earnings dates the provider knows of
EarningsDates == <<"2026-04-25", "2026-07-25">>

\* the sort keys of the table in the order of a Query (ascending sort key)
SkOrder == <<"DATE#2026-04-25", "DATE#2026-07-25", EMPTY_SENTINEL_SK>>

SkRank(sk) == CHOOSE k \in 1..Len(SkOrder) : SkOrder[k] = sk

\* f"EARN#{ticker.upper()}"
EarningsPk(ticker) == "EARN#" \o Str(Upper(ticker))

\* an event of _parse_earnings_event for a date given without a time
EarningsEvent(d) == [earningsDate |-> d, earningsHour |-> "TNS"]

\* the item cache_earnings writes for an event at time t
EarningsItem(ticker, ev, t) ==
    [pk |-> EarningsPk(ticker), sk |-> "DATE#" \o ev.earningsDate,
     entityType |-> "EARNINGS_EVENT", ticker |-> Str(Upper(ticker)),
     ttl |-> t + TTL_SECONDS, earningsDate |-> ev.earningsDate,
     earningsHour |-> ev.earningsHour]

\* the sentinel cache_earnings writes for an empty list at time t
SentinelItem(ticker, t) ==
    [pk |-> EarningsPk(ticker), sk |-> EMPTY_SENTINEL_SK,
     entityType |-> "EARNINGS_EMPTY", ticker |-> Str(Upper(ticker)),
     ttl |-> t + TTL_SECONDS]

\* table.put_item on the table keyed by (pk, sk)
PutEarningsItem(st, it) ==
    {x \in st : ~(x.pk = it.pk /\ x.sk = it.sk)} \cup {it}

RECURSIVE PutEarningsItems(_, _)
PutEarningsItems(st, its) ==
    IF Len(its) = 0 THEN st
    ELSE PutEarningsItems(PutEarningsItem(st, Head(its)), Tail(its))

\* the items of a set in the order of their sort keys
RECURSIVE SortedBySk(_)
SortedBySk(S) ==
    IF S = {} THEN <<>>
    ELSE LET m == CHOOSE x \in S : \A y \in S : SkRank(x.sk) <= SkRank(y.sk)
         IN  <<m>> \o SortedBySk(S \ {m})

\* a variant of Unexpired that keeps the items the store still holds
Unexpired_KeepsAll(items, t) == items

\* the items whose ttl is after t: item.get("ttl", now + 1) > now
Unexpired(items, t) ==
    LET Fresh(item) == item.ttl > t
    IN  SelectSeq(items, Fresh)

\* a variant of get_cached_earnings that answers the cached empty list whenever
\* the sentinel is among the unexpired items
get_cached_earnings_SentinelWins(st, t, ticker) ==
    LET items == Unexpired(SortedBySk({x \in st : x.pk = EarningsPk(ticker)}), t)
        NotSentinel(item) == item.sk # EMPTY_SENTINEL_SK
    IN  IF Len(items) = 0 THEN None
        ELSE IF \E i \in 1..Len(items) : items[i].sk = EMPTY_SENTINEL_SK THEN Some(<<>>)
        ELSE Some(SelectSeq(items, NotSentinel))

\* get_cached_earnings(ticker) at time t: None on a miss, Some(<<>>) for the
\* cached empty list, Some(items) otherwise
get_cached_earnings(st, t, ticker) ==
    LET response_items == SortedBySk({x \in st : x.pk = EarningsPk(ticker)})
        items == Unexpired(response_items, t)
        NotSentinel(item) == item.sk # EMPTY_SENTINEL_SK
    IN  IF Len(items) = 0 THEN None
        ELSE IF Len(items) = 1 /\ items[1].sk = EMPTY_SENTINEL_SK THEN Some(<<>>)
        ELSE Some(SelectSeq(items, NotSentinel))

\* the exception of boto3's serializer for a Python float in an Item
FloatError == OtherError("TypeError", "Float types are not supported. Use Decimal types instead.")

\* the event carries an estimate: event["epsEstimate"] = float(eps_estimate)
HasFloat(item) == "epsEstimate" \in DOMAIN item

\* a variant of cache_earnings whose sentinel expires as it is written
cache_earnings_SentinelExpired(st, t, ticker, items, fails) ==
    IF fails THEN [raised |-> TRUE, exc |-> StoreError, store |-> st, sentinel |-> FALSE]
    ELSE IF Len(items) = 0
    THEN [raised |-> FALSE, exc |-> NoExc,
          store |-> PutEarningsItem(st, [SentinelItem(ticker, t) EXCEPT !.ttl = t]),
          sentinel |-> TRUE]
    ELSE IF \E i \in 1..Len(items) : HasFloat(items[i])
    THEN [raised |-> TRUE, exc |-> FloatError, store |-> st, sentinel |-> FALSE]
    ELSE [raised |-> FALSE, exc |-> NoExc,
          store |-> PutEarningsItems(st, [i \in 1..Len(items) |->
                                             EarningsItem(ticker, items[i], t)]),
          sentinel |-> FALSE]

\* cache_earnings(ticker, items) at time t; fails: the store refuses the write
\* and nothing is written. The batch writer serialises the buffered items when
\* the with block ends, and the serializer raises on a float before anything is
\* sent
cache_earnings(st, t, ticker, items, fails) ==
    IF fails THEN [raised |-> TRUE, exc |-> StoreError, store |-> st, sentinel |-> FALSE]
    ELSE IF Len(items) = 0
    THEN [raised |-> FALSE, exc |-> NoExc,
          store |-> PutEarningsItem(st, SentinelItem(ticker, t)), sentinel |-> TRUE]
    ELSE IF \E i \in 1..Len(items) : HasFloat(items[i])
    THEN [raised |-> TRUE, exc |-> FloatError, store |-> st, sentinel |-> FALSE]
    ELSE [raised |-> FALSE, exc |-> NoExc,
          store |-> PutEarningsItems(st, [i \in 1..Len(items) |->
                                             EarningsItem(ticker, items[i], t)]),
          sentinel |-> FALSE]

\* what stock.calendar gives: a calendar with one or two earnings dates, with
\* or without "Earnings Average", no calendar, a calendar without
\* "Earnings Date", a date that is neither a datetime nor a string, or an
\* exception of the provider
CalendarBehaviours ==
    {[kind |-> "events", dates |-> <<EarningsDates[1]>>, eps |-> FALSE],
     [kind |-> "events", dates |-> EarningsDates, eps |-> FALSE],
     [kind |-> "events", dates |-> <<EarningsDates[1]>>, eps |-> TRUE],
     [kind |-> "no_calendar", dates |-> <<>>, eps |-> FALSE],
     [kind |-> "no_date", dates |-> <<>>, eps |-> FALSE],
     [kind |-> "unparsable", dates |-> <<>>, eps |-> FALSE],
     [kind |-> "error", dates |-> <<>>, eps |-> FALSE]}

\* an event of _parse_earnings_event when the calendar has "Earnings Average"
EarningsEventWithEstimate(d) ==
    [earningsDate |-> d, earningsHour |-> "TNS", epsEstimate |-> [float |-> "2.35"]]

\* one undecorated call of fetch_earnings_calendar: every exception that is not
\* an APIError is logged and answered with []
EarningsAttempt(u) ==
    [raised |-> FALSE, exc |-> NoExc,
     value |-> IF u.kind = "events"
               THEN [i \in 1..Len(u.dates) |->
                        IF u.eps THEN EarningsEventWithEstimate(u.dates[i])
                        ELSE EarningsEvent(u.dates[i])]
               ELSE <<>>]

\* fetch_earnings_calendar(ticker), decorated, the provider behaving as u
fetch_earnings_calendar(u, ticker) ==
    LET r == retry_with_backoff([i \in 1..(MAX_RETRIES + 1) |-> EarningsAttempt(u)])
    IN  [r EXCEPT !.calls = <<"fetch_earnings_calendar">> \o r.calls]

\* _clean_cache_items(items)
CleanCacheItems(items) ==
    [i \in 1..Len(items) |->
        [ticker |-> items[i].ticker, earningsDate |-> items[i].earningsDate,
         earningsHour |-> items[i].earningsHour]]

\* what one call of _get_earnings_for_ticker at time t did: it returned or
\* raised, the table it left, the collaborator calls in order, what
\* get_cached_earnings answered (looked: it answered at all), how the provider
\* behaved, what was handed to cache_earnings, and whether the sentinel was
\* written
EarningsOutcome(kind, data, exc, st, calls, looked, lookup, upstream, handed, sentinel, t) ==
    [kind |-> kind, data |-> data, exc |-> exc, store |-> st, calls |-> calls,
     looked |-> looked, lookup |-> lookup, upstream |-> upstream,
     handed |-> handed, sentinel |-> sentinel, at |-> t]

\* a variant of GetEarningsForTicker that caches nothing for an empty result
GetEarningsForTicker_SkipsEmptyWrite(st, t, ticker) ==
    LET lookup == get_cached_earnings(st, t, ticker)
        g == <<"get_cached_earnings">>
    IN  IF ~lookup.none
        THEN {EarningsOutcome("return", CleanCacheItems(lookup.value), NoExc, st, g,
                              TRUE, lookup, "none", None, FALSE, t)}
        ELSE {LET f == fetch_earnings_calendar(u, ticker)
              IN  IF Len(f.value) = 0
                  THEN EarningsOutcome("return", f.value, NoExc, st, g \o f.calls,
                                       TRUE, lookup, u.kind, None, FALSE, t)
                  ELSE EarningsOutcome("return", f.value, NoExc,
                                       cache_earnings(st, t, ticker, f.value, FALSE).store,
                                       Append(g \o f.calls, "cache_earnings"),
                                       TRUE, lookup, u.kind, Some(f.value), FALSE, t)
              : u \in CalendarBehaviours}

\* _get_earnings_for_ticker(ticker) on table st at time t: the set of things it
\* can do
GetEarningsForTicker(st, t, ticker) ==
    LET lookup == get_cached_earnings(st, t, ticker)
        g == <<"get_cached_earnings">>
    IN  \* the query of the cache raises
        {EarningsOutcome("raise", <<>>, StoreError, st, g, FALSE, None, "none", None,
                         FALSE, t)}
        \cup
        (IF ~lookup.none
         THEN {EarningsOutcome("return", CleanCacheItems(lookup.value), NoExc, st, g,
                               TRUE, lookup, "none", None, FALSE, t)}
         ELSE UNION {
                LET f == fetch_earnings_calendar(u, ticker)
                    c == Append(g \o f.calls, "cache_earnings")
                IN  {LET w == cache_earnings(st, t, ticker, f.value, fails)
                     IN  IF w.raised
                         THEN EarningsOutcome("raise", <<>>, w.exc, w.store, c,
                                              TRUE, lookup, u.kind, Some(f.value),
                                              FALSE, t)
                         ELSE EarningsOutcome("return", f.value, NoExc, w.store, c,
                                              TRUE, lookup, u.kind, Some(f.value),
                                              w.sentinel, t)
                     : fails \in BOOLEAN}
                : u \in CalendarBehaviours})

\* str.strip()
RECURSIVE Strip(_)
Strip(s) ==
    IF Len(s) = 0 THEN s
    ELSE IF s[1] \in {" ", "\n"} THEN Strip(Tail(s))
    ELSE IF s[Len(s)] \in {" ", "\n"} THEN Strip(SubSeq(s, 1, Len(s) - 1))
    ELSE s

\* validate_ticker(raw): the normalised ticker, or None
validate_ticker(raw) ==
    IF Len(raw) = 0 THEN None
    ELSE LET normalized == Strip(Upper(raw))
         IN  IF TickerPatternMatch(normalized) THEN Some(normalized) ELSE None

EarningsRequest(raw) ==
    [kind |-> "earnings", ticker |-> raw, tickers |-> <<>>, startDate |-> NoDate,
     endDate |-> NoDate, type |-> "earnings"]

\* the ticker parameters tried: absent, well formed, lower case within blanks,
\* holding a blank
EarningsTickerInputs == {<<>>, SymF, <<" ", "f", "\n">>, <<"F", " ", "F">>}

\* handle_earnings_request(event)
HandleEarningsRequest ==
    /\ pc = "earnings"
    /\ \E raw \in EarningsTickerInputs :
         /\ request' = EarningsRequest(raw)
         /\ IF validate_ticker(raw).none
            THEN /\ response' = error_response("Missing or invalid ticker parameter", 400)
                 /\ outcome' = NoOutcome
                 /\ store' = store
            ELSE \E o \in GetEarningsForTicker(store, now, validate_ticker(raw).value) :
                   /\ outcome' = o
                   /\ store' = o.store
                   /\ response' =
                        IF o.kind = "return"
                        THEN [statusCode |-> 200, error |-> "", data |-> o.data]
                        ELSE error_response("Failed to fetch earnings: " \o StrOfExc(o.exc),
                                            500)
    /\ UNCHANGED <<now, pc, futures, results, errors, cached, dynamodb>>

\* another invocation, which missed the cache earlier, caches what it fetched
ConcurrentCacheEarnings ==
    /\ pc = "earnings"
    /\ \E u \in CalendarBehaviours :
         store' = cache_earnings(store, now, SymF, fetch_earnings_calendar(u, SymF).value,
                                 FALSE).store
    /\ store' # store
    /\ UNCHANGED <<now, request, pc, response, outcome, futures, results, errors, cached, dynamodb>>

\* half the time to live of an item passes
EarningsTick ==
    /\ pc = "earnings"
    /\ now < StoreStartNow + MaxTick * (TTL_SECONDS \div 2)
    /\ now' = now + TTL_SECONDS \div 2
    /\ UNCHANGED <<store, request, pc, response, outcome, futures, results, errors, cached, dynamodb>>

\* the TTL sweep of the table deletes an item whose ttl has passed
EarningsSweep ==
    /\ pc = "earnings"
    /\ \E x \in store : x.ttl <= now /\ store' = store \ {x}
    /\ UNCHANGED <<now, request, pc, response, outcome, futures, results, errors, cached, dynamodb>>

\* the table is empty or holds an event of another ticker
InitEarnings ==
    /\ store \in {{}, {EarningsItem(SymT, EarningsEvent(EarningsDates[1]), StoreStartNow)}}
    /\ now = StoreStartNow
    /\ pc = "earnings"
    /\ request = EarningsRequest(<<>>)
    /\ response = NoResponse
    /\ outcome = NoOutcome
    /\ futures = <<>>
    /\ results = EmptyDict
    /\ errors = EmptyDict
    /\ cached = EmptyDict
    /\ dynamodb = WarmHandle

NextEarnings ==
    \/ HandleEarningsRequest
    \/ ConcurrentCacheEarnings
    \/ EarningsTick
    \/ EarningsSweep

SpecEarnings == InitEarnings /\ [][NextEarnings]_vars

(***************************************************************************)
(* Normalisation of single upstream rows (utils/transform.py)              *)
(***************************************************************************)
\* the rows tried, values in 1e-4 units: open 0, 50 and 33.3333; close 0, 100
\* and 3; adjusted close absent, 0, 95, 100 and 1
TransformRows ==
    {[idx |-> 1, Open |-> o, High |-> h, Low |-> l, Close |-> c, AdjClose |-> a,
      Volume |-> v, Dividends |-> 0, StockSplits |-> 0] :
        o \in {0, 500000, 333333}, h \in {500000, 520000}, l \in {1, 490000},
        c \in {0, 1000000, 30000}, a \in {NoAdjClose, 0, 950000, 1000000, 10000},
        v \in {0, 1000}}

TransformRequest(row) ==
    [kind |-> "transform", ticker |-> SymF, tickers |-> <<>>, startDate |-> NoDate,
     endDate |-> NoDate, type |-> "prices", row |-> row]

\* transform_history_to_tiingo on a frame of the one row
TransformOneRow ==
    /\ pc = "transform"
    /\ pc' = "done"
    /\ LET r == transform_history_to_tiingo(Frame(<<request.row>>, FALSE, ""))
       IN  response' = [statusCode |-> 0, raised |-> r.raised, data |-> r.data]
    /\ UNCHANGED <<store, now, request, outcome, futures, results, errors, cached, dynamodb>>

InitTransform ==
    /\ \E row \in TransformRows : request = TransformRequest(row)
    /\ store = {}
    /\ now = StoreStartNow
    /\ pc = "transform"
    /\ response = NoResponse
    /\ outcome = NoOutcome
    /\ futures = <<>>
    /\ results = EmptyDict
    /\ errors = EmptyDict
    /\ cached = EmptyDict
    /\ dynamodb = WarmHandle

NextTransform == TransformOneRow

SpecTransform == InitTransform /\ [][NextTransform]_vars

(***************************************************************************)
(* retry_with_backoff around any function (services/yfinance_service.py)   *)
(***************************************************************************)
\* what one call of a wrapped function can do: return, raise an APIError with
\* a status (0: the status is None), or raise another exception
WrappedCallOutcomes ==
    {[raised |-> FALSE, exc |-> NoExc, value |-> Frame(<<>>, FALSE, "")]}
    \cup {[raised |-> TRUE, exc |-> APIError("upstream said no", code),
           value |-> Frame(<<>>, FALSE, "")] : code \in {0, 400, 404, 429, 499, 500, 503}}
    \cup {[raised |-> TRUE, exc |-> OtherError("ConnectionError", "connection reset"),
           value |-> Frame(<<>>, FALSE, "")]}

\* what the wrapped function does on each of its possible calls
WrappedScripts == [1..(MAX_RETRIES + 1) -> WrappedCallOutcomes]

RetryRequest(script) ==
    [kind |-> "retry", ticker |-> SymF, tickers |-> <<>>, startDate |-> NoDate,
     endDate |-> NoDate, type |-> "prices", script |-> script]

\* one call of the wrapper
CallWrapper ==
    /\ pc = "call"
    /\ pc' = "done"
    /\ response' = retry_with_backoff(request.script)
    /\ UNCHANGED <<store, now, request, outcome, futures, results, errors, cached, dynamodb>>

InitRetry ==
    /\ \E script \in WrappedScripts : request = RetryRequest(script)
    /\ store = {}
    /\ now = StoreStartNow
    /\ pc = "call"
    /\ response = NoResponse
    /\ outcome = NoOutcome
    /\ futures = <<>>
    /\ results = EmptyDict
    /\ errors = EmptyDict
    /\ cached = EmptyDict
    /\ dynamodb = WarmHandle

NextRetry == CallWrapper

SpecRetry == InitRetry /\ [][NextRetry]_vars

(***************************************************************************)
(* Top holdings of a sector fund (services/etf_holdings_service.py)        *)
(***************************************************************************)
CACHE_TTL_SECONDS == 604800    \* 7 * 24 * 60 * 60

\* the entry of ETF_TOP_HOLDINGS for XLK; the table has no entry for ZZZ
XlkTopHoldings ==
    <<"AAPL", "MSFT", "NVDA", "AVGO", "CRM", "ADBE", "AMD", "CSCO", "ACN", "ORCL">>

\* ETF_TOP_HOLDINGS.get(etf_ticker, [])
ETF_TOP_HOLDINGS(etf_ticker) == IF etf_ticker = "XLK" THEN XlkTopHoldings ELSE <<>>

\* the fund symbols asked for: one of the static table, one unknown to it
EtfInputs == {"XLK", "ZZZ"}

\* the index of the top_holdings frame of the provider, heaviest first
ProviderSymbols == <<"A", "B", "C", "D", "E", "F", "G", "H", "I", "J", "K", "L">>

\* lst[:n]
Slice(lst, n) == SubSeq(lst, 1, Min(n, Len(lst)))

\* A JSON text is a sequence of tokens: brackets, commas and string literals
JsonPunct(p) == [tok |-> p, text |-> ""]
JsonString(s) == [tok |-> "string", text |-> s]

\* json.dumps of a list of strings
RECURSIVE JsonElements(_)
JsonElements(lst) ==
    IF Len(lst) = 0 THEN <<>>
    ELSE IF Len(lst) = 1 THEN <<JsonString(lst[1])>>
    ELSE <<JsonString(lst[1]), JsonPunct(",")>> \o JsonElements(Tail(lst))

json_dumps(lst) == <<JsonPunct("[")>> \o JsonElements(lst) \o <<JsonPunct("]")>>

\* the elements between the brackets: [raised, value]
RECURSIVE JsonParseElements(_)
JsonParseElements(toks) ==
    IF Len(toks) = 0 \/ toks[1].tok # "string"
    THEN [raised |-> TRUE, value |-> <<>>]
    ELSE IF Len(toks) = 1
    THEN [raised |-> FALSE, value |-> <<toks[1].text>>]
    ELSE IF toks[2].tok # ","
    THEN [raised |-> TRUE, value |-> <<>>]
    ELSE LET rest == JsonParseElements(SubSeq(toks, 3, Len(toks)))
         IN  [raised |-> rest.raised,
              value |-> IF rest.raised THEN <<>> ELSE <<toks[1].text>> \o rest.value]

\* json.loads of a text that holds a list of strings: [raised, value]
json_loads(toks) ==
    IF Len(toks) < 2 \/ toks[1].tok # "[" \/ toks[Len(toks)].tok # "]"
    THEN [raised |-> TRUE, value |-> <<>>]
    ELSE IF Len(toks) = 2
    THEN [raised |-> FALSE, value |-> <<>>]
    ELSE JsonParseElements(SubSeq(toks, 2, Len(toks) - 1))

\* the item _cache_holdings puts at time t
HoldingsItem(etf_ticker, holdings, t) ==
    [pk |-> "ETF#" \o etf_ticker, sk |-> "HOLDINGS", holdings |-> json_dumps(holdings),
     ttl |-> t + CACHE_TTL_SECONDS, entityType |-> "ETF_HOLDINGS"]

\* _get_cached_holdings: the cached list, or None when the item is missing or
\* expired or the read raised
_get_cached_holdings(st, t, etf_ticker, read_fails) ==
    LET found == {x \in st : x.pk = "ETF#" \o etf_ticker /\ x.sk = "HOLDINGS"}
        item == CHOOSE x \in found : TRUE
        parsed == json_loads(item.holdings)
    IN  IF read_fails THEN None
        ELSE IF found = {} THEN None
        ELSE IF item.ttl < t THEN None
        ELSE IF parsed.raised THEN None
        ELSE Some(parsed.value)

\* _cache_holdings: the table after the put; a put that raises is logged only
_cache_holdings(st, t, etf_ticker, holdings, write_fails) ==
    IF write_fails THEN st
    ELSE {x \in st : ~(x.pk = "ETF#" \o etf_ticker /\ x.sk = "HOLDINGS")}
           \cup {HoldingsItem(etf_ticker, holdings, t)}

\* What the provider does in one call: top_holdings with n rows, an empty
\* frame, no frame, funds_data raising, or yf.Ticker raising
ProviderBehaviours ==
    {[kind |-> "holdings", n |-> n] : n \in {4, 5, 12}}
      \cup {[kind |-> k, n |-> 0] : k \in {"empty", "no_frame", "funds_error", "ticker_error"}}

\* _fetch_from_yfinance under behaviour u: [raised, value]
_fetch_from_yfinance(u) ==
    IF u.kind = "ticker_error" THEN [raised |-> TRUE, value |-> <<>>]
    ELSE IF u.kind = "holdings"
    THEN [raised |-> FALSE, value |-> Slice(Slice(ProviderSymbols, u.n), 10)]
    ELSE [raised |-> FALSE, value |-> <<>>]

\* what one call of get_etf_holdings did
HoldingsOutcome(etf_ticker, data, st, calls, lookup, read_failed, upstream, handed, put_failed, t) ==
    [kind |-> "return", etf |-> etf_ticker, data |-> data, store |-> st, calls |-> calls,
     lookup |-> lookup, read_failed |-> read_failed, upstream |-> upstream, handed |-> handed,
     put_failed |-> put_failed, at |-> t]

\* get_etf_holdings with a provider answer of any length accepted
get_etf_holdings_AnyLength(st, t, etf_ticker, read_fails, u, write_fails) ==
    LET cached_holdings == _get_cached_holdings(st, t, etf_ticker, read_fails)
        fetched == _fetch_from_yfinance(u)
        static == ETF_TOP_HOLDINGS(etf_ticker)
    IN  IF ~cached_holdings.none
        THEN HoldingsOutcome(etf_ticker, cached_holdings.value, st,
                             <<"_get_cached_holdings">>, cached_holdings, read_fails, u, None, FALSE, t)
        ELSE IF ~fetched.raised /\ Len(fetched.value) > 0
        THEN HoldingsOutcome(etf_ticker, Slice(fetched.value, 10),
                             _cache_holdings(st, t, etf_ticker, Slice(fetched.value, 10),
                                             write_fails),
                             <<"_get_cached_holdings", "_fetch_from_yfinance",
                               "_cache_holdings">>,
                             cached_holdings, read_fails, u, Some(Slice(fetched.value, 10)),
                             write_fails, t)
        ELSE IF Len(static) > 0
        THEN HoldingsOutcome(etf_ticker, static,
                             _cache_holdings(st, t, etf_ticker, static, write_fails),
                             <<"_get_cached_holdings", "_fetch_from_yfinance",
                               "_cache_holdings">>,
                             cached_holdings, read_fails, u, Some(static), write_fails, t)
        ELSE HoldingsOutcome(etf_ticker, static, st,
                             <<"_get_cached_holdings", "_fetch_from_yfinance">>,
                             cached_holdings, read_fails, u, None, FALSE, t)

\* get_etf_holdings(etf_ticker, table) at time t
get_etf_holdings(st, t, etf_ticker, read_fails, u, write_fails) ==
    LET cached_holdings == _get_cached_holdings(st, t, etf_ticker, read_fails)
        fetched == _fetch_from_yfinance(u)
        static == ETF_TOP_HOLDINGS(etf_ticker)
    IN  IF ~cached_holdings.none
        THEN HoldingsOutcome(etf_ticker, cached_holdings.value, st,
                             <<"_get_cached_holdings">>, cached_holdings, read_fails, u, None, FALSE, t)
        ELSE IF ~fetched.raised /\ Len(fetched.value) > 0 /\ Len(fetched.value) >= 5
        THEN HoldingsOutcome(etf_ticker, Slice(fetched.value, 10),
                             _cache_holdings(st, t, etf_ticker, Slice(fetched.value, 10),
                                             write_fails),
                             <<"_get_cached_holdings", "_fetch_from_yfinance",
                               "_cache_holdings">>,
                             cached_holdings, read_fails, u, Some(Slice(fetched.value, 10)),
                             write_fails, t)
        ELSE IF Len(static) > 0
        THEN HoldingsOutcome(etf_ticker, static,
                             _cache_holdings(st, t, etf_ticker, static, write_fails),
                             <<"_get_cached_holdings", "_fetch_from_yfinance",
                               "_cache_holdings">>,
                             cached_holdings, read_fails, u, Some(static), write_fails, t)
        ELSE HoldingsOutcome(etf_ticker, static, st,
                             <<"_get_cached_holdings", "_fetch_from_yfinance">>,
                             cached_holdings, read_fails, u, None, FALSE, t)

HoldingsRequest(etf_ticker) == [kind |-> "etf_holdings", etf |-> etf_ticker]

\* one call of get_etf_holdings: the read and the put of the table may raise,
\* the provider behaves in any of its ways
GetEtfHoldings ==
    /\ pc = "holdings"
    /\ \E etf_ticker \in EtfInputs, read_fails \in BOOLEAN, write_fails \in BOOLEAN,
          u \in ProviderBehaviours :
         \E o \in {get_etf_holdings(store, now, etf_ticker, read_fails, u, write_fails)} :
           /\ request' = HoldingsRequest(etf_ticker)
           /\ outcome' = o
           /\ store' = o.store
           /\ response' = [statusCode |-> 0, raised |-> FALSE, data |-> o.data]
    /\ UNCHANGED <<now, pc, futures, results, errors, cached, dynamodb>>

\* a week passes
HoldingsTick ==
    /\ pc = "holdings"
    /\ now < StoreStartNow + MaxTick * CACHE_TTL_SECONDS
    /\ now' = now + CACHE_TTL_SECONDS
    /\ UNCHANGED <<store, request, pc, response, outcome, futures, results, errors, cached, dynamodb>>

\* the TTL sweep of the table deletes an item whose ttl has passed
HoldingsSweep ==
    /\ pc = "holdings"
    /\ \E x \in store : x.ttl <= now /\ store' = store \ {x}
    /\ UNCHANGED <<now, request, pc, response, outcome, futures, results, errors, cached, dynamodb>>

\* the table is empty
InitHoldings ==
    /\ store = {}
    /\ now = StoreStartNow
    /\ pc = "holdings"
    /\ request = HoldingsRequest("XLK")
    /\ response = NoResponse
    /\ outcome = NoOutcome
    /\ futures = <<>>
    /\ results = EmptyDict
    /\ errors = EmptyDict
    /\ cached = EmptyDict
    /\ dynamodb = WarmHandle

NextHoldings ==
    \/ GetEtfHoldings
    \/ HoldingsTick
    \/ HoldingsSweep

SpecHoldings == InitHoldings /\ [][NextHoldings]_vars

(***************************************************************************)
(* The lazily initialised store handle under the workers of the pool       *)
(* (repositories/stocks_cache.py, _get_dynamodb). Every worker runs        *)
(* handle_prices_request, which reaches _get_dynamodb through _get_table   *)
(* once for the range query and once for the write-back. The function has  *)
(* no lock: the test of the global, the creation of the resource and the   *)
(* assignment of the global are separate steps of a thread.                *)
(***************************************************************************)
\* the calls of _get_dynamodb one task makes: the range query, the write-back
CallsPerTask == 2

\* the worker threads of the pool
HandleWorkers == 1..MaxBatch

Worker(state, made, got) == [state |-> state, made |-> made, got |-> got]

\* if _dynamodb is None
GetDynamodbTest(i) ==
    /\ pc = "pool"
    /\ futures[i].state = "idle"
    /\ Len(futures[i].got) < CallsPerTask
    /\ futures' = [futures EXCEPT ![i].state =
                      IF dynamodb = NoHandle THEN "create" ELSE "return"]
    /\ UNCHANGED <<store, now, request, pc, response, outcome, results, errors, cached, dynamodb>>

\* boto3.resource("dynamodb", **kwargs): worker i creates the resource i
GetDynamodbCreate(i) ==
    /\ pc = "pool"
    /\ futures[i].state = "create"
    /\ futures' = [futures EXCEPT ![i].state = "assign", ![i].made = i]
    /\ UNCHANGED <<store, now, request, pc, response, outcome, results, errors, cached, dynamodb>>

\* _dynamodb = <the resource created>
GetDynamodbAssign(i) ==
    /\ pc = "pool"
    /\ futures[i].state = "assign"
    /\ dynamodb' = futures[i].made
    /\ futures' = [futures EXCEPT ![i].state = "return"]
    /\ UNCHANGED <<store, now, request, pc, response, outcome, results, errors, cached>>

\* return _dynamodb
GetDynamodbReturn(i) ==
    /\ pc = "pool"
    /\ futures[i].state = "return"
    /\ futures' = [futures EXCEPT ![i].state = "idle",
                                  ![i].got = Append(@, dynamodb)]
    /\ UNCHANGED <<store, now, request, pc, response, outcome, results, errors, cached, dynamodb>>

\* the process is cold (no handle yet) or warm when the pool starts
InitHandle ==
    /\ dynamodb \in {NoHandle, WarmHandle}
    /\ futures = [i \in HandleWorkers |-> Worker("idle", NoHandle, <<>>)]
    /\ pc = "pool"
    /\ store = {}
    /\ now = InitialNow
    /\ request = [kind |-> "batch", ticker |-> <<>>, tickers |-> <<>>, startDate |-> 1,
                  endDate |-> 1, type |-> "prices"]
    /\ response = NoResponse
    /\ outcome = NoOutcome
    /\ results = EmptyDict
    /\ errors = EmptyDict
    /\ cached = EmptyDict

NextHandle ==
    \E i \in HandleWorkers :
        \/ GetDynamodbTest(i)
        \/ GetDynamodbCreate(i)
        \/ GetDynamodbAssign(i)
        \/ GetDynamodbReturn(i)

SpecHandle == InitHandle /\ [][NextHandle]_vars

(***************************************************************************)
(* Properties of the single-symbol pipeline, checked under SpecPrices      *)
(***************************************************************************)
\* the request went through handle_prices_request
Served ==
    /\ pc = "done"
    /\ request.kind = "stocks"
    /\ request.type = "prices"
    /\ outcome.kind # "none"

EffectiveEnd == IF request.endDate # NoDate THEN request.endDate ELSE Today(now)

\* the range is made of calendar dates, so that its number of days is defined
CalendarRange == request.startDate \in Days /\ EffectiveEnd \in Days

ActualCount == Len(outcome.queried)

ExpectedCount ==
    LET calendarDays == EffectiveEnd - request.startDate + 1
        weekdays == (calendarDays * 5) \div 7
    IN  IF weekdays < 1 THEN 1 ELSE weekdays

CallsOf(name) == {i \in 1..Len(outcome.calls) : outcome.calls[i] = name}

\* the trading days of the requested range, which are the dates the provider
\* has records for
RangeTradingDays ==
    {d \in Days : request.startDate <= d /\ d <= EffectiveEnd /\ d % 7 \notin {6, 0}}

\* the response carries one normalised record per trading day of the range
FetchedRangeServed ==
    /\ response.statusCode = 200
    /\ response.data = outcome.data
    /\ {response.data[i].date[1] : i \in 1..Len(response.data)} = RangeTradingDays
    /\ Len(response.data) = Cardinality(RangeTradingDays)
    /\ Len(response.data) > 0

\* C1: when the range query answers for a range of calendar dates, the request
\* is served from the cache if and only if actualCount / expectedCount > 0.8 and
\* actualCount > 0, with expectedCount = max(1, floor(calendarDays * 5 / 7)): a
\* ratio of exactly 0.8 is not sufficient
C1_CacheServedIffCoverageAbove80 ==
    (Served /\ ~outcome.query_raised /\ CalendarRange)
    => ((response.statusCode = 200 /\ response.cached)
        <=> (10 * ActualCount > 8 * ExpectedCount /\ ActualCount > 0))

\* 4 of 5 expected records are cached (exactly 0.8) and the request is not
\* served from the cache
C1_Witness ==
    /\ Served /\ ~outcome.query_raised /\ CalendarRange
    /\ ActualCount = 4 /\ ExpectedCount = 5
    /\ response.statusCode = 200 /\ ~response.cached

\* C2: a request served from the cache returns exactly the records the range
\* query answered, in date order, marked cached, after no fetch and no store
\* write: the store is left as it was
C2_CacheHitStep ==
    (pc = "start" /\ pc' = "done" /\ request.kind = "stocks"
     /\ response'.statusCode = 200 /\ response'.cached)
    => LET q == outcome'.queried
           data == response'.data
       IN  /\ Len(data) = Len(q)
           /\ \A i \in 1..Len(q) :
                /\ data[i].date = <<q[i].date, "T00:00:00.000Z">>
                /\ \A j \in 1..(i - 1) : q[j].date < q[i].date
                /\ [k \in DOMAIN q[i].priceData |-> data[i][k]] = q[i].priceData
                /\ DOMAIN data[i] = DOMAIN q[i].priceData \cup {"date"}
                /\ q[i] \in store
           /\ outcome'.calls = <<"query_stocks_by_date_range">>
           /\ outcome'.put = <<>>
           /\ store' = store

C2_CacheHitReturnsQueriedRecords == [][C2_CacheHitStep]_vars

\* a request was served from the cache with two records or more
C2_Witness ==
    /\ Served /\ response.statusCode = 200 /\ response.cached
    /\ Len(response.data) >= 2

\* C3: when the range query answers with insufficient coverage and the request
\* returns, the pipeline has fetched the range, has handed batch_put_stocks one
\* item per returned record keyed by (ticker, record date), and returns the
\* records marked not cached
C3_MissFetchesAndWritesBack ==
    (Served /\ ~outcome.query_raised /\ CalendarRange
     /\ ~(10 * ActualCount > 8 * ExpectedCount /\ ActualCount > 0)
     /\ outcome.kind = "return")
    => /\ response.statusCode = 200 /\ ~response.cached
       /\ response.data = outcome.data
       /\ CallsOf("fetch_stock_prices") # {}
       /\ CallsOf("batch_put_stocks") # {}
       /\ \A i \in CallsOf("fetch_stock_prices"), j \in CallsOf("batch_put_stocks") : i < j
       /\ Len(outcome.put) = Len(outcome.data)
       /\ \A i \in 1..Len(outcome.data) :
            /\ outcome.put[i].ticker = Upper(request.ticker)
            /\ outcome.put[i].date = outcome.data[i].date[1]

\* what holds of every request whose range query raised, whatever came after:
\* the fallback fetch was invoked, the store's error is kept from the caller,
\* the request is not served as a cache hit, and a request that returns gives
\* the fetched records with a hit rate of 0
StoreReadFailureFallsBack ==
    /\ Len(outcome.calls) >= 2
    /\ outcome.calls[1] = "query_stocks_by_date_range"
    /\ outcome.calls[2] = "fetch_stock_prices"
    /\ outcome.exc # StoreError
    /\ response.error # StoreError.message
    /\ ~response.cached
    /\ outcome.kind = "return"
         => /\ FetchedRangeServed
            /\ response.cacheHitRate.num = 0

\* the request failed with the error the fetch raised
UpstreamErrorSurfaced ==
    /\ outcome.exc.type = "APIError"
    /\ outcome.calls[Len(outcome.calls)] \in {"attempt_404", "attempt_error"}
    /\ response.statusCode = outcome.exc.status_code
    /\ response.statusCode \in {404, 500}
    /\ response.error = outcome.exc.message
    /\ response.error \in {NotFoundMessage(Upper(request.ticker)), FetchFailedMessage}

\* the request failed with the error that normalising the fetched frame raised
NormalisationErrorSurfaced ==
    /\ outcome.exc.type # "APIError"
    /\ outcome.calls[Len(outcome.calls)] = "transform_history_to_tiingo"
    /\ response.statusCode = 500
    /\ response.error = "Internal server error"

\* C4: when the range query raises, the store's error never reaches the caller
\* and the request is never served as a cache hit: the pipeline falls back to the
\* fetch and returns its records marked not cached with a hit rate of 0, or
\* fails with the error of the fetch
C4_FallbackReturnsOrUpstreamError ==
    (Served /\ outcome.query_raised)
    => /\ StoreReadFailureFallsBack
       /\ outcome.kind = "raise" => UpstreamErrorSurfaced

\* C4, with the failure the statement above leaves out: when the range query
\* raises, the store's error never reaches the caller and the request is never
\* served as a cache hit: the pipeline falls back to the fetch and returns its
\* records marked not cached with a hit rate of 0, or fails with the error of the
\* fetch, or fails with the error of normalising what it fetched
C4_StoreReadFailureFallsBack ==
    (Served /\ outcome.query_raised)
    => /\ StoreReadFailureFallsBack
       /\ outcome.kind = "raise" => UpstreamErrorSurfaced \/ NormalisationErrorSurfaced

\* the range query raised and the request returned two fetched records or more
C4_Witness ==
    /\ Served /\ outcome.query_raised
    /\ response.statusCode = 200 /\ ~response.cached
    /\ Len(response.data) >= 2

\* C5: when batch_put_stocks raises after a successful fetch, the request still
\* returns the fetched records, marked not cached, from that one fetch
C5_WriteFailureDoesNotFailRead ==
    (Served /\ outcome.put_raised)
    => /\ outcome.kind = "return"
       /\ FetchedRangeServed
       /\ ~response.cached
       /\ Cardinality(CallsOf("fetch_stock_prices")) = 1
       /\ outcome.calls[Len(outcome.calls)] = "batch_put_stocks"
       /\ Len(outcome.put) = Len(response.data)

\* the write of a fetched range raised and the request answered 200
C5_Witness ==
    /\ Served /\ outcome.put_raised
    /\ response.statusCode = 200
    /\ Len(response.data) >= 2

\* C6: an attempt of the fetch that ends in a 404 is the last thing the pipeline
\* does: no sleep, no further attempt and no store write follow it, and the
\* caller gets the 404 with the provider's message
C6_NotFoundIsNotRetried ==
    Served
    => \A i \in CallsOf("attempt_404") :
         /\ i = Len(outcome.calls)
         /\ CallsOf("batch_put_stocks") = {}
         /\ outcome.put = <<>>
         /\ outcome.kind = "raise"
         /\ outcome.exc = APIError(NotFoundMessage(Upper(request.ticker)), 404)
         /\ response.statusCode = 404
         /\ response.error = NotFoundMessage(Upper(request.ticker))

\* the provider had no data at the first attempt of the only fetch
C6_Witness ==
    /\ Served
    /\ outcome.calls = <<"query_stocks_by_date_range", "fetch_stock_prices", "attempt_404">>
    /\ response.statusCode = 404

\* the request was answered by the coverage evaluation of a calendar range:
\* from the cache, or by the one fetch of a miss
CoverageEvaluated ==
    /\ Served
    /\ CalendarRange
    /\ outcome.kind = "return"
    /\ ~outcome.query_raised
    /\ Cardinality(CallsOf("fetch_stock_prices")) <= 1

\* C18: the expected count the coverage is measured against is
\* max(1, floor(days * 5 / 7)) with days = (end - start) + 1, it is at least 1,
\* and no range that contains the requested one has a smaller expected count
C18_ExpectedCountIsMonotone ==
    CoverageEvaluated
    => /\ outcome.cacheHitRate.den = ExpectedCount
       /\ outcome.cacheHitRate.den >= 1
       /\ response.cacheHitRate = outcome.cacheHitRate
       /\ \A s \in Days, e \in Days :
            (s <= request.startDate /\ e >= EffectiveEnd)
            => ExpectedTradingDays(s, e) >= outcome.cacheHitRate.den

\* a range whose expected count is above the floor of 1 and is rounded down
C18_Witness ==
    /\ CoverageEvaluated
    /\ outcome.cacheHitRate.den >= 2
    /\ ((EffectiveEnd - request.startDate + 1) * 5) % 7 # 0
    /\ \E s \in Days : s < request.startDate

\* the request went through one of the two routed handlers
Routed == pc = "done" /\ request.kind = "stocks" /\ outcome.kind # "none"

LastCall == outcome.calls[Len(outcome.calls)]

\* C19: handle_stocks_request answers every request with one response and lets
\* no exception out: 200 with the data the routed handler returned, the status
\* code and message of the APIError it raised (404 when the provider knows no
\* such ticker, 500 when the retries of a failing provider are exhausted), 500
\* "Internal server error" for any other exception; a request that fails the
\* validation reaches no handler and is answered 400
C19_EveryRequestGetsOneResponse ==
    /\ (pc = "start" /\ request.kind = "stocks") => response = NoResponse
    /\ (pc = "done" /\ request.kind = "stocks")
       => /\ response.statusCode \in {200, 400, 404, 500}
          /\ response.statusCode = 400 <=> outcome.kind = "none"
          /\ response.statusCode = 400 <=> StocksValidationError(request) # ""
    /\ Routed
       => IF outcome.kind = "return"
          THEN /\ response.statusCode = 200
               /\ response.error = ""
               /\ response.data = outcome.data
          ELSE IF outcome.exc.type = "APIError"
          THEN /\ response.statusCode = outcome.exc.status_code
               /\ response.error = outcome.exc.message
               /\ LastCall \in {"attempt_404", "attempt_error"}
               /\ response.statusCode = 404 <=> LastCall = "attempt_404"
               /\ response.statusCode = 500 <=> LastCall = "attempt_error"
          ELSE /\ response.statusCode = 500
               /\ response.error = "Internal server error"

\* a metadata request for a ticker the provider does not know is answered with
\* the 404 and the message of the APIError
C19_Witness ==
    /\ Routed
    /\ request.type = "metadata"
    /\ outcome.kind = "raise"
    /\ outcome.exc = APIError("Ticker 'F' not found", 404)
    /\ response.statusCode = 404
    /\ response.error = "Ticker 'F' not found"

\* the orders in which a store could have answered the items q: every
\* arrangement of the first MaxShuffle of them before the others, and q reversed
Reorderings(q) ==
    LET n == Len(q)
        m == IF n <= MaxShuffle THEN n ELSE MaxShuffle
    IN  {[i \in 1..n |-> IF i <= m THEN q[p[i]] ELSE q[i]] : p \in Permutations(1..m)}
        \cup {[i \in 1..n |-> q[n + 1 - i]]}

\* C20: the records of a response served from the cache are in strictly
\* ascending date order, and they are the same records in the same order for
\* every order in which the store could have answered the queried items
C20_CachedRecordsAscendByDate ==
    (Served /\ response.statusCode = 200 /\ response.cached)
    => /\ \A i \in 1..Len(response.data), j \in 1..Len(response.data) :
            i < j => DatePrefix(response.data[i].date) < DatePrefix(response.data[j].date)
       /\ \A r \in Reorderings(outcome.queried) : CacheHitData(r) = response.data

\* a request was served from the cache with three records or more, which a
\* store could have answered in six orders or more
C20_Witness ==
    /\ Served /\ response.statusCode = 200 /\ response.cached
    /\ Len(response.data) >= 3
    /\ Cardinality(Reorderings(outcome.queried)) >= 6

\* the stored items of the requested ticker within the requested range
StoredInRange ==
    {x \in store : /\ x.ticker = Upper(request.ticker)
                   /\ request.startDate <= x.date
                   /\ x.date <= EffectiveEnd}

\* the items the range query of the step answers
QueriedNext == {outcome'.queried[i] : i \in 1..Len(outcome'.queried)}

C21_QueryStep ==
    (pc = "start" /\ pc' = "done" /\ request.kind = "stocks" /\ request.type = "prices"
     /\ outcome'.kind # "none" /\ ~outcome'.query_raised)
    => /\ QueriedNext = StoredInRange
       /\ Len(outcome'.queried) = Cardinality(StoredInRange)

\* what of C21 the single page of the Query does answer: only stored items of
\* the ticker within the inclusive range, each once, the earliest ones, all of
\* them when they fit in a page, and the empty list when none is stored
C21_PageStep ==
    (pc = "start" /\ pc' = "done" /\ request.kind = "stocks" /\ request.type = "prices"
     /\ outcome'.kind # "none" /\ ~outcome'.query_raised)
    => /\ QueriedNext \subseteq StoredInRange
       /\ Len(outcome'.queried) = Cardinality(QueriedNext)
       /\ \A x \in QueriedNext, y \in StoredInRange \ QueriedNext : x.date < y.date
       /\ Cardinality(StoredInRange) <= PageCapacity => QueriedNext = StoredInRange
       /\ StoredInRange = {} => outcome'.queried = <<>>

\* C21: the range query of a price request answers every stored item of the
\* requested ticker whose date is within the inclusive range, each once, and
\* nothing else; it answers the empty list when no item matches
C21_RangeQueryReturnsAllInRange == [][C21_QueryStep]_vars

C21_RangeQueryReturnsFirstPage == [][C21_PageStep]_vars

\* the request returned records fetched from the provider
ReturnedFetchedRecords ==
    /\ Served
    /\ outcome.kind = "return"
    /\ ~response.cached
    /\ Len(outcome.data) > 0

\* batch_put_stocks was called with the returned records after the last fetch
WriteBackAttempted ==
    /\ CallsOf("batch_put_stocks") # {}
    /\ \A i \in CallsOf("fetch_stock_prices"), j \in CallsOf("batch_put_stocks") : i < j
    /\ outcome.put_raised \/ Len(outcome.put) = Len(outcome.data)

\* C23: every request that is not served from the cache and returns fetched
\* records has attempted the write-back of those records before it returns,
\* also when the coverage was insufficient because the range query raised
C23_WriteBackAttemptedOnEveryMiss ==
    ReturnedFetchedRecords => WriteBackAttempted

\* what of C23 does hold: the write-back is attempted when the range query
\* answered, the dates of the range parsed, and the first fetch and its
\* normalisation succeeded
C23_WriteBackAttemptedOnPlainMiss ==
    (ReturnedFetchedRecords /\ ~outcome.query_raised /\ CalendarRange
     /\ Cardinality(CallsOf("fetch_stock_prices")) = 1)
    => WriteBackAttempted

\* the events of the retry wrapper
RetryEvents == {"attempt_ok", "attempt_404", "attempt_error", "sleep"}

\* the positions in the calls of the events of the fetch invoked at position i
FetchSegment(i) ==
    {j \in (i + 1)..Len(outcome.calls) :
        \A k \in (i + 1)..j : outcome.calls[k] \in RetryEvents}

AttemptsOf(i) == {j \in FetchSegment(i) : outcome.calls[j] # "sleep"}

\* C17: one fetch through the retry wrapper calls the provider at least once
\* and at most 4 times; a successful attempt is the last one (its result is
\* returned); failures that are no client error are retried until the 4th, and
\* after the 4th the last error is raised to the caller
C17_RetriesAreBounded ==
    Served
    => \A i \in CallsOf("fetch_stock_prices") :
         LET att == AttemptsOf(i)
             last == CHOOSE j \in att : \A k \in att : k <= j
             exhausted == Cardinality(att) = 4 /\ outcome.calls[last] = "attempt_error"
         IN  /\ att # {}
             /\ Cardinality(att) <= 4
             /\ \A j \in att : outcome.calls[j] # "attempt_error" => j = last
             /\ \A j \in att : j # last => outcome.calls[j + 1] = "sleep"
             /\ outcome.calls[last] = "attempt_error" => Cardinality(att) = 4
             /\ outcome.calls[last] = "attempt_ok"
                  => /\ last < Len(outcome.calls)
                     /\ outcome.calls[last + 1] = "transform_history_to_tiingo"
             /\ exhausted
                  => /\ last = Len(outcome.calls)
                     /\ outcome.kind = "raise"
                     /\ outcome.exc = APIError(FetchFailedMessage, 500)
                     /\ response.statusCode = 500
                     /\ response.error = FetchFailedMessage

\* the only fetch of a request failed four times and the request is answered
\* with the error of the provider
C17_Witness ==
    /\ Served
    /\ outcome.calls = <<"query_stocks_by_date_range", "fetch_stock_prices",
                         "attempt_error", "sleep", "attempt_error", "sleep",
                         "attempt_error", "sleep", "attempt_error">>
    /\ response.statusCode = 500
    /\ response.error = FetchFailedMessage

(***************************************************************************)
(* Properties of the batch coordinator, checked under SpecBatch            *)
(***************************************************************************)
\* the batch request has been answered
BatchAnswered == pc = "done" /\ request.kind = "batch"

\* the request passed validation: its pipelines were submitted
Dispatched == Len(futures) > 0

RequestedSymbols == {futures[i].ticker : i \in 1..Len(futures)}

\* the pipeline of task i raised / returned
PipelineRaised(i) == futures[i].result.value.data.none
PipelineData(i) == futures[i].result.value.data.value

\* the characters a symbol may be made of: letters, digits, dot and hyphen
SymbolAlphabet == {"F", "T", "f", "t", "1", ".", "-"}

MalformedSymbol(sym) ==
    Len(sym) = 0 \/ \E k \in 1..Len(sym) : sym[k] \notin SymbolAlphabet

\* C7: in an answered batch of distinct symbols every symbol's outcome is
\* reported on its own: a symbol whose pipeline raised, whatever the exception
\* and its message, is in the error map and not in the success map, and a
\* symbol whose pipeline returned is in the success map with its own records
C7_FailureIsIsolatedPerSymbol ==
    (BatchAnswered /\ Dispatched
     /\ \A i, j \in 1..Len(futures) : i # j => futures[i].ticker # futures[j].ticker)
    => /\ response.statusCode = 200
       /\ \A i \in 1..Len(futures) :
            LET t == futures[i].ticker
            IN  /\ ~futures[i].result.none
                /\ PipelineRaised(i)
                     => t \in DOMAIN response.errors /\ t \notin DOMAIN response.data
                /\ ~PipelineRaised(i)
                     => /\ t \in DOMAIN response.data
                        /\ t \notin DOMAIN response.errors
                        /\ response.data[t] = Some(PipelineData(i))

\* C8: in an answered batch every requested symbol is in exactly one of the
\* success map and the error map, the maps hold nothing else, and successCount +
\* errorCount is the number of symbols requested
C8_SuccessAndErrorMapsPartition ==
    (BatchAnswered /\ Dispatched)
    => /\ response.statusCode = 200
       /\ \A t \in RequestedSymbols :
            (t \in DOMAIN response.data) # (t \in DOMAIN response.errors)
       /\ DOMAIN response.data \cup DOMAIN response.errors = RequestedSymbols
       /\ response.successCount + response.errorCount = Cardinality(RequestedSymbols)

\* C9: a batch request with no symbol, more than 10 symbols, a malformed symbol
\* or a start date after its end date is answered 400 and no pipeline is
\* dispatched for it
C9_InvalidBatchIsRejected ==
    (BatchAnswered
     /\ \/ Len(request.tickers) = 0
        \/ Len(request.tickers) > 10
        \/ \E i \in 1..Len(request.tickers) : MalformedSymbol(request.tickers[i])
        \/ /\ request.startDate \in Days /\ request.endDate \in Days
           /\ request.startDate > request.endDate)
    => /\ response.statusCode = 400
       /\ futures = <<>>
       /\ results = EmptyDict /\ errors = EmptyDict
       /\ store \in BatchStores

\* C10: a batch request that passed validation is answered 200 whatever its
\* pipelines did, failures being reported in the error map only
C10_DispatchedBatchAnswers200 ==
    (BatchAnswered /\ Dispatched)
    => /\ response.statusCode = 200
       /\ response.error = ""

\* two symbols were requested, both pipelines raised, and the answer is a 200
\* with an empty success map
C10_Witness ==
    /\ BatchAnswered /\ Len(futures) = 2
    /\ \A i \in 1..Len(futures) : PipelineRaised(i)
    /\ response.statusCode = 200
    /\ response.successCount = 0
    /\ response.errorCount = 2

\* C11: while the pool runs, the pipelines executing at the same time are never
\* more than min(symbolCount, 5), and when the batch is answered every
\* requested symbol's pipeline has run to its end
C11_PoolIsCappedAndEveryTaskRuns ==
    /\ (request.kind = "batch" /\ Dispatched)
       => LET running == {i \in 1..Len(futures) : futures[i].state = "running"}
              cap == IF Len(request.tickers) < 5 THEN Len(request.tickers) ELSE 5
          IN  /\ Cardinality(running) <= cap
              /\ Len(futures) = Len(request.tickers)
    /\ (BatchAnswered /\ Dispatched)
       => \A i \in 1..Len(futures) :
            /\ futures[i].state = "done"
            /\ ~futures[i].result.none
            /\ "query_stocks_by_date_range" \in futures[i].calls

\* six symbols were requested: five pipelines run and the sixth waits
C11_Witness ==
    /\ request.kind = "batch" /\ Len(futures) = 6
    /\ Cardinality({i \in 1..Len(futures) : futures[i].state = "running"}) = 5
    /\ futures[6].state = "pending"

\* the batch is made of distinct symbols
DistinctSymbols ==
    \A i, j \in 1..Len(futures) : i # j => futures[i].ticker # futures[j].ticker

\* the cached flag the pipeline of task i returned
PipelineCached(i) == futures[i].result.value.was_cached

CachedMapMatchesPipelines ==
    /\ DOMAIN response.cached = DOMAIN response.data
    /\ DOMAIN response.cached \cap DOMAIN response.errors = {}
    /\ \A t \in DOMAIN response.cached :
         \E i \in 1..Len(futures) : futures[i].ticker = t /\ ~PipelineRaised(i)
    /\ \A i \in 1..Len(futures) :
         ~PipelineRaised(i) => response.cached[futures[i].ticker] = PipelineCached(i)

\* C26: in an answered batch the cached-flag map has an entry for exactly the
\* symbols of the success map and for no symbol of the error map, every entry
\* is of a symbol whose pipeline returned, and it is the cached flag that the
\* symbol's pipeline returned
C26_CachedMapMatchesSuccessMap ==
    (BatchAnswered /\ Dispatched /\ response.statusCode = 200)
    => CachedMapMatchesPipelines

\* what of C26 does hold: the cached-flag map and the success map always have
\* the same symbols, and for batches of distinct symbols no symbol of the error
\* map has a flag and every pipeline that returned has its own flag in the map
C26_CachedMapOfDistinctSymbols ==
    (BatchAnswered /\ Dispatched /\ response.statusCode = 200)
    => /\ DOMAIN response.cached = DOMAIN response.data
       /\ DistinctSymbols
            => /\ DOMAIN response.cached \cap DOMAIN response.errors = {}
               /\ \A i \in 1..Len(futures) :
                    ~PipelineRaised(i)
                    => response.cached[futures[i].ticker] = PipelineCached(i)

(***************************************************************************)
(* Validation of the single-symbol request, checked under SpecPrices       *)
(***************************************************************************)
\* a date parameter that is given and is no date: it does not have the form
\* YYYY-MM-DD, or it has the form and names no day of the calendar
MalformedDate(d) == d \in {Malformed, NonCalendar}

\* C12: a single-symbol request with a malformed symbol, a malformed date or a
\* start date after its end date is answered 400, and neither the store nor the
\* provider is called for it
C12_InvalidRequestIsRejected ==
    (pc = "done" /\ request.kind = "stocks"
     /\ \/ MalformedSymbol(request.ticker)
        \/ MalformedDate(request.startDate)
        \/ MalformedDate(request.endDate)
        \/ /\ request.startDate \in Days /\ request.endDate \in Days
           /\ request.startDate > request.endDate)
    => /\ response.statusCode = 400
       /\ outcome = NoOutcome

(***************************************************************************)
(* Properties of the record store, checked under SpecStore                 *)
(***************************************************************************)
\* the time in seconds at which item x was written
WrittenAt(x) == x.fetchedAt \div 1000

\* the age in days of the date of item x when it was written
AgeWhenWritten(x) == (WrittenAt(x) \div 86400) - x.date

\* C13: an item written for a calendar date has ttl = write time + 7,776,000 s
\* when the date was more than 7 days old at the write, and write time +
\* 86,400 s otherwise; 7 days old is in the short tier
C13_TtlTierByAge ==
    \A x \in store :
        x.date \in Days
        => x.ttl = WrittenAt(x) + (IF AgeWhenWritten(x) > 7 THEN 7776000 ELSE 86400)

\* put_stock has just written an item whose date was exactly 7 days old, with
\* the short ttl, and the table holds an item written when its date was 8 days
\* old, with the long ttl
C13_Witness ==
    /\ request.kind = "put_stock" /\ ~response.raised
    /\ \E x \in store :
         /\ x.date = request.items[1].date /\ WrittenAt(x) = now
         /\ AgeWhenWritten(x) = 7 /\ x.ttl = now + 86400
    /\ \E y \in store : AgeWhenWritten(y) = 8 /\ y.ttl = WrittenAt(y) + 7776000

\* C14: an item written for a date string that cannot be parsed is stored, the
\* write not failing for it, with ttl = write time + 86,400 s
C14_UnparsableDateGetsShortTtl ==
    /\ \A x \in store : x.date \notin Days => x.ttl = WrittenAt(x) + 86400
    /\ (request.kind \in {"put_stock", "batch_put_stocks"} /\ ~response.raised)
       => \A i \in 1..Len(request.items) :
            request.items[i].date \notin Days
            => \E x \in store :
                 /\ x.date = request.items[i].date
                 /\ x.priceData = request.items[i].priceData
                 /\ x.ttl = now + 86400

\* put_stock has just stored an item whose date is no date
C14_Witness ==
    /\ request.kind = "put_stock" /\ ~response.raised
    /\ request.items[1].date = Malformed
    /\ \E x \in store : x.date = Malformed /\ WrittenAt(x) = now /\ x.ttl = now + 86400

\* the items of the table under the key of a caller's item
StoredUnder(st, item) == {x \in st : x.ticker = Upper(item.ticker) /\ x.date = item.date}

\* a write of the caller's item at the current time left exactly that item
\* under its key
LastWriteWins(st, item) ==
    /\ Cardinality(StoredUnder(st, item)) = 1
    /\ \A x \in StoredUnder(st, item) :
         /\ x.priceData = item.priceData
         /\ x.fetchedAt = now * 1000

C15_Step ==
    /\ \A x, y \in store' : (x.ticker = y.ticker /\ x.date = y.date) => x = y
    /\ \A x \in store' : x.ticker = Upper(x.ticker)
    /\ (request'.kind \in {"put_stock", "batch_put_stocks"} /\ ~response'.raised)
       => /\ \A i \in 1..Len(request'.items) : LastWriteWins(store', request'.items[i])
          /\ \A y \in store :
               (\A i \in 1..Len(request'.items) : y \notin StoredUnder(store, request'.items[i]))
               => y \in store'
          /\ Cardinality(store') <= Cardinality(store) + Len(request'.items)

\* C15: after every put_stock, batch_put_stocks or write-back, in any order, the
\* table holds at most one item per (uppercased ticker, date); a write leaves
\* under its key exactly the item it wrote (the last write wins, an equal record
\* written again differs in ttl and fetchedAt only) and leaves the other keys
\* as they were
C15_OneRecordPerKey == [][C15_Step]_vars

\* on a later day put_stock has just written an item with the second price
\* data: the table holds exactly that item under its key, next to another key
C15_Witness ==
    /\ request.kind = "put_stock" /\ ~response.raised
    /\ now > StoreStartNow
    /\ request.items[1].priceData = PriceB
    /\ LastWriteWins(store, request.items[1])
    /\ Cardinality(store) >= 2

\* C16: an item whose ttl is at or before the current time is absent for a price
\* request: the coverage evaluation does not count it in actualCount and a
\* response served from the cache does not carry it
C16_ExpiredRecordsAreAbsent ==
    (request.kind = "prices" /\ outcome.kind # "none")
    => /\ \A i \in 1..Len(outcome.queried) : outcome.queried[i].ttl > now
       /\ outcome.cached
          => \A i \in 1..Len(outcome.data) :
               \A x \in store :
                   (x.ticker = SymF /\ x.date = outcome.data[i].date[1]) => x.ttl > now

\* ttlFor(date) at time t: 90 days for a calendar date more than 7 days before
\* the day of t, one day otherwise
TtlFor(d, t) == IF d \in Days /\ (t \div 86400) - d > 7 THEN 7776000 ELSE 86400

\* C24: every stored item carries ttl = its write time + ttlFor(its own date),
\* which is later than its write time; after a write by put_stock or
\* batch_put_stocks every written item has the ttl of its own date at this write
C24_TtlIsPerRecord ==
    /\ \A x \in store :
         /\ x.ttl = WrittenAt(x) + TtlFor(x.date, WrittenAt(x))
         /\ x.ttl > WrittenAt(x)
    /\ (request.kind \in {"put_stock", "batch_put_stocks"} /\ ~response.raised)
       => \A i \in 1..Len(request.items) :
            \E x \in store :
               /\ x.ticker = Upper(request.items[i].ticker)
               /\ x.date = request.items[i].date
               /\ WrittenAt(x) = now
               /\ x.ttl = now + TtlFor(request.items[i].date, now)

\* batch_put_stocks has just written two items of one batch in different tiers
C24_Witness ==
    /\ request.kind = "batch_put_stocks" /\ ~response.raised
    /\ Len(request.items) = 2
    /\ \E x \in store, y \in store :
         /\ WrittenAt(x) = now /\ WrittenAt(y) = now
         /\ x.date = request.items[1].date /\ y.date = request.items[2].date
         /\ x.ttl = now + 7776000
         /\ y.ttl = now + 86400

(***************************************************************************)
(* Properties of batch_put_stocks, checked under SpecChunks                *)
(***************************************************************************)
\* the items the write groups sent so far hold, in order
RECURSIVE Flatten(_)
Flatten(groups) ==
    IF Len(groups) = 0 THEN <<>> ELSE Head(groups) \o Flatten(Tail(groups))

\* the stored items written by this call
WrittenNow == {x \in store : WrittenAt(x) = now}

\* C25: batch_put_stocks sends the items in write groups of 1 to 25 items each,
\* in the order given; when no group fails every item of the list is stored
\* under its key with its price data, whatever the length of the list; when a
\* group fails the items of the groups before it are stored; the empty list
\* sends no group, writes nothing and does not raise
C25_BatchPutStoresEveryItem ==
    (pc = "done" /\ request.kind = "batch_put_stocks")
    => LET items == request.items
           sent == Flatten(response.groups)
       IN  /\ \A k \in 1..Len(response.groups) :
                Len(response.groups[k]) >= 1 /\ Len(response.groups[k]) <= 25
           /\ \A k \in 1..(Len(response.groups) - 1) : Len(response.groups[k]) = 25
           /\ Len(sent) <= Len(items)
           /\ \A i \in 1..Len(sent) :
                /\ sent[i].ticker = Upper(items[i].ticker)
                /\ sent[i].date = items[i].date
                /\ sent[i].priceData = items[i].priceData
           /\ ~response.raised
                => /\ Len(sent) = Len(items)
                   /\ WrittenNow = {sent[i] : i \in 1..Len(sent)}
                   /\ Cardinality(WrittenNow) = Len(items)
           /\ response.raised
                => /\ Len(response.groups) >= 1
                   /\ WrittenNow = {sent[i] : i \in 1..(25 * (Len(response.groups) - 1))}
           /\ Len(items) = 0
                => /\ ~response.raised
                   /\ response.groups = <<>>
                   /\ store \in ChunkInitialStores

\* a list of more than two write groups was stored whole, over the items the
\* table held for two of its keys
C25_Witness ==
    /\ pc = "done" /\ request.kind = "batch_put_stocks" /\ ~response.raised
    /\ Len(request.items) = 51
    /\ Len(response.groups) = 3
    /\ Cardinality(store) = 51
    /\ WrittenNow = store

(***************************************************************************)
(* Properties of the store handle, checked under SpecHandle                *)
(***************************************************************************)
\* the resources created since the pool started
ResourcesMade == {futures[i].made : i \in HandleWorkers} \ {NoHandle}

\* the handles the workers' calls of _get_dynamodb returned
HandlesUsed == UNION {{futures[i].got[k] : k \in 1..Len(futures[i].got)} : i \in HandleWorkers}

\* C22: under the concurrent workers of the pool the handle is created at most
\* once in the process (never in a warm process), and every call of every
\* worker gets one and the same handle
C22_HandleCreatedOnceAndShared ==
    /\ Cardinality(ResourcesMade) <= 1
    /\ dynamodb = WarmHandle => ResourcesMade = {}
    /\ Cardinality(HandlesUsed) <= 1

\* what of C22 does hold: a warm process creates nothing and every call gets
\* the warm handle; a worker creates at most one resource, every call returns a
\* handle (never None), and a handle once set is never cleared
C22_HandleIsNeverNone ==
    /\ NoHandle \notin HandlesUsed
    /\ \A i \in HandleWorkers : Len(futures[i].got) > 0 => dynamodb # NoHandle
    /\ WarmHandle \in HandlesUsed => (ResourcesMade = {} /\ HandlesUsed = {WarmHandle})

(***************************************************************************)
(* Properties of the earnings cache, checked under SpecEarnings            *)
(***************************************************************************)
\* the last request reached get_cached_earnings and the query answered
EarningsLooked == outcome.kind # "none" /\ outcome.looked

\* the items of the ticker the table still holds whose ttl had passed when the
\* last request read the cache
HeldExpired == {x \in store : x.pk = EarningsPk(SymF) /\ x.ttl <= outcome.at}

\* C27: get_cached_earnings never returns an item whose ttl is at or before
\* the time of the read, whether or not the table still holds the item.
C27_NoExpiredItemReturned ==
    (EarningsLooked /\ ~outcome.lookup.none)
    => \A i \in 1..Len(outcome.lookup.value) :
         outcome.lookup.value[i].ttl > outcome.at

\* a read answered with an event while the table held an item of the ticker
\* whose ttl was exactly the time of the read
C27_Witness ==
    /\ EarningsLooked
    /\ ~outcome.lookup.none
    /\ Len(outcome.lookup.value) >= 1
    /\ \E x \in HeldExpired : x.ttl = outcome.at

\* the unexpired items of the ticker in the table as a request finds it
UnexpiredNow == {x \in store : x.pk = EarningsPk(SymF) /\ x.ttl > now}

UnexpiredEventsNow == {x \in UnexpiredNow : x.sk # EMPTY_SENTINEL_SK}

\* a step of handle_earnings_request that reached the cache and was answered:
\* no other action changes request, response or outcome, and a request that
\* changes none of them changes nothing at all
EarningsReadStep ==
    /\ outcome'.kind # "none"
    /\ outcome'.looked
    /\ <<request, response, outcome>>' # <<request, response, outcome>>

C28_ReadStep ==
    EarningsReadStep
    => LET lookup == outcome'.lookup
       IN  /\ lookup.none <=> UnexpiredNow = {}
           /\ (UnexpiredNow # {} /\ UnexpiredEventsNow = {}) => lookup = Some(<<>>)
           /\ UnexpiredEventsNow # {}
              => /\ ~lookup.none
                 /\ {lookup.value[i] : i \in 1..Len(lookup.value)} = UnexpiredEventsNow
                 /\ Len(lookup.value) = Cardinality(UnexpiredEventsNow)
           /\ ~lookup.none
              => \A i \in 1..Len(lookup.value) :
                   /\ lookup.value[i].sk # EMPTY_SENTINEL_SK
                   /\ lookup.value[i].entityType = "EARNINGS_EVENT"

\* C28: get_cached_earnings answers None when the ticker has no unexpired
\* item, the empty list when its only unexpired item is the sentinel, and
\* otherwise exactly its unexpired items other than the sentinel, each once;
\* the sentinel is never among the items answered.
C28_LookupIsMissEmptyOrEvents == [][C28_ReadStep]_vars

\* a read answered with an event while the table held the unexpired sentinel
\* of the ticker, written before that event
C28_Witness ==
    /\ EarningsLooked
    /\ ~outcome.lookup.none
    /\ \E x \in store :
         /\ x.pk = EarningsPk(SymF)
         /\ x.sk = EMPTY_SENTINEL_SK
         /\ x.ttl > outcome.at
         /\ \E i \in 1..Len(outcome.lookup.value) : x.ttl < outcome.lookup.value[i].ttl

\* the provider behaviours that confirm there is no earnings data: no calendar,
\* or a calendar without an earnings date
ConfirmedNoData == {"no_calendar", "no_date"}

\* C29: a request writes the sentinel only after the provider was queried and
\* confirmed that it has no earnings data; a query of the provider that failed
\* never leads to a cached sentinel.
C29_SentinelOnlyAfterConfirmedEmpty ==
    (outcome.kind # "none" /\ outcome.sentinel)
    => outcome.upstream \in ConfirmedNoData

\* what of C29 does hold: the sentinel is written only after the provider was
\* called and fetch_earnings_calendar answered the empty list, and the item
\* written is the sentinel of the requested ticker with a fresh ttl
C29_SentinelOnlyAfterEmptyAnswer ==
    (outcome.kind # "none" /\ outcome.sentinel)
    => /\ outcome.lookup.none
       /\ outcome.upstream # "none"
       /\ outcome.handed = Some(<<>>)
       /\ SentinelItem(SymF, outcome.at) \in outcome.store

\* how often a collaborator appears among the calls of the last request
EarningsCallCount(name) ==
    Cardinality({i \in 1..Len(outcome'.calls) : outcome'.calls[i] = name})

C30_RequestStep ==
    EarningsReadStep
    => IF ~outcome'.lookup.none
       THEN \* hit, the cached empty list included: no provider call, no write
            /\ outcome'.calls = <<"get_cached_earnings">>
            /\ store' = store
            /\ outcome'.kind = "return"
       ELSE \* miss: one provider call, then one cache_earnings call with
            \* what the provider call answered
            /\ outcome'.calls[1] = "get_cached_earnings"
            /\ outcome'.calls[2] = "fetch_earnings_calendar"
            /\ outcome'.calls[Len(outcome'.calls)] = "cache_earnings"
            /\ EarningsCallCount("fetch_earnings_calendar") = 1
            /\ EarningsCallCount("attempt_ok") = 1
            /\ EarningsCallCount("cache_earnings") = 1
            /\ Len(outcome'.calls) = 4
            /\ ~outcome'.handed.none
            /\ outcome'.kind = "return"
               => /\ outcome'.data = outcome'.handed.value
                  /\ store' = cache_earnings(store, now, SymF, outcome'.data, FALSE).store
            /\ outcome'.kind = "raise" => store' = store

\* C30: _get_earnings_for_ticker is cache-first. When get_cached_earnings
\* answers a value other than None, the cached empty list included, the
\* provider is not called and nothing is written; on a miss the provider is
\* called once and cache_earnings is called once with its result, also when
\* that result is empty.
C30_CacheFirst == [][C30_RequestStep]_vars

\* a miss on which the provider confirmed there is no data: it was called
\* once and the empty list was handed to cache_earnings, which stored the
\* sentinel
C30_Witness ==
    /\ EarningsLooked
    /\ outcome.lookup.none
    /\ outcome.upstream \in ConfirmedNoData
    /\ outcome.calls = <<"get_cached_earnings", "fetch_earnings_calendar", "attempt_ok",
                         "cache_earnings">>
    /\ outcome.handed = Some(<<>>)
    /\ response = [statusCode |-> 200, error |-> "", data |-> <<>>]
    /\ SentinelItem(SymF, outcome.at) \in store

\* the read times tried within the 24 hours after a write at time t: at once,
\* half way, and the last second before the ttl
EarningsWindow(t) == {t, t + TTL_SECONDS \div 2, t + TTL_SECONDS - 1}

\* the lists fetch_earnings_calendar can answer
EarningsLists == {fetch_earnings_calendar(u, SymF).value : u \in CalendarBehaviours}

\* the events of cached items, as _clean_cache_items leaves them but for the
\* ticker
AsEvents(items) ==
    [i \in 1..Len(items) |->
        [earningsDate |-> items[i].earningsDate, earningsHour |-> items[i].earningsHour]]

\* reading the table st anywhere in the window after time t answers the list
RoundTrip(st, t, items) ==
    \A r \in EarningsWindow(t) :
        LET lookup == get_cached_earnings(st, r, SymF)
        IN  /\ ~lookup.none
            /\ AsEvents(lookup.value) = items

\* a request called cache_earnings while the store accepted writes
C31_RequestCaches ==
    (EarningsReadStep /\ ~outcome'.handed.none /\ outcome'.exc # StoreError)
    => RoundTrip(store', now, outcome'.handed.value)

\* another invocation called cache_earnings
C31_ConcurrentCaches ==
    (ConcurrentCacheEarnings /\ UNCHANGED outcome)
    => \A items \in EarningsLists :
         store' = cache_earnings(store, now, SymF, items, FALSE).store
         => RoundTrip(store', now, items)

\* C31: after cache_earnings(ticker, []) get_cached_earnings(ticker) answers
\* [] and not None until 24 hours have passed, and after
\* cache_earnings(ticker, items) with items it answers those items until 24
\* hours have passed.
C31_RoundTripOfTheEarningsCache == [][C31_RequestCaches /\ C31_ConcurrentCaches]_vars

\* what of C31 does hold: when a request's cache_earnings returned, reads in
\* the window answer what was cached, [] for the empty list
C31_RoundTripWhenTheWriteReturned ==
    [][(EarningsReadStep /\ ~outcome'.handed.none /\ outcome'.kind = "return")
       => RoundTrip(store', now, outcome'.handed.value)]_vars

(***************************************************************************)
(* Pipelines per symbol in one batch, checked under SpecBatch              *)
(***************************************************************************)
\* the tasks of the batch that ran the pipeline of symbol t
PipelinesOf(t) == {i \in 1..Len(futures) : futures[i].ticker = t}

\* C39: in an answered batch the single-symbol pipeline has run exactly once
\* for each distinct normalized symbol, so no symbol is queried or fetched
\* twice within the batch.
C39_OnePipelinePerDistinctSymbol ==
    (BatchAnswered /\ Dispatched)
    => \A t \in RequestedSymbols : Cardinality(PipelinesOf(t)) = 1

\* what of C39 does hold: one pipeline has run for each entry of the request,
\* under the entry's normalized symbol
C39_OnePipelinePerEntry ==
    (BatchAnswered /\ Dispatched /\ response.statusCode = 200)
    => /\ Len(futures) = Len(request.tickers)
       /\ \A i \in 1..Len(futures) :
            /\ futures[i].ticker = Upper(request.tickers[i])
            /\ futures[i].state = "done"

(***************************************************************************)
(* Calls of the provider in one price request, checked under SpecPrices    *)
(***************************************************************************)
\* C36: in one handle_prices_request call fetch_stock_prices is invoked at
\* most once, whichever path is taken.
C36_FetchInvokedAtMostOnce ==
    Served => Cardinality(CallsOf("fetch_stock_prices")) <= 1

\* what of C36 does hold: never more than two invocations, and a second one
\* only after the normalisation of the first fetch's frame raised
C36_SecondFetchOnlyAfterFailedNormalisation ==
    Served
    => /\ Cardinality(CallsOf("fetch_stock_prices")) <= 2
       /\ Cardinality(CallsOf("fetch_stock_prices")) = 2
          => \E i \in CallsOf("transform_history_to_tiingo") :
               /\ \E j \in CallsOf("fetch_stock_prices") : j < i
               /\ \E j \in CallsOf("fetch_stock_prices") : j > i
               /\ "batch_put_stocks" \notin {outcome.calls[k] : k \in 1..Len(outcome.calls)}

\* the request was served from the cache
ServedFromCache ==
    /\ Served
    /\ CalendarRange
    /\ response.statusCode = 200
    /\ response.cached

\* the dates of the records of the response
ResponseDates == {response.data[i].date[1] : i \in 1..Len(response.data)}

\* C37: with a settled upstream series, a response served from the cache
\* holds a record for every date a fetch of the same range would return.
C37_CacheHitOmitsNoUpstreamDate ==
    ServedFromCache => RangeTradingDays \subseteq ResponseDates

\* what of C37 does hold: a response served from the cache holds more than 80%
\* of the estimated number of trading days, and holds every date of the
\* upstream that the range query answered
C37_CacheHitHoldsWhatTheQueryAnswered ==
    ServedFromCache
    => /\ 10 * Cardinality(ResponseDates) > 8 * ExpectedCount
       /\ ResponseDates = {outcome.queried[i].date : i \in 1..Len(outcome.queried)}

\* C38: every price request that reaches the coverage evaluation has
\* start <= effective end date, the given end or the current date when no end
\* is given, so that the days of the range are at least 1.
C38_StartIsNotAfterEffectiveEnd ==
    Served
    => /\ request.startDate <= EffectiveEnd
       /\ CalendarRange => EffectiveEnd - request.startDate + 1 >= 1

\* what of C38 does hold: a price request whose end date is given reaches the
\* coverage evaluation with start <= end
C38_StartIsNotAfterGivenEnd ==
    (Served /\ request.endDate # NoDate)
    => /\ request.startDate <= request.endDate
       /\ CalendarRange => EffectiveEnd - request.startDate + 1 >= 1

(***************************************************************************)
(* Letter case of the ticker in the price store, checked under SpecStore   *)
(***************************************************************************)
\* the spellings of a ticker in every letter case
LetterCases(ticker) ==
    {c \in [1..Len(ticker) -> SymbolAlphabet] : Upper(c) = Upper(ticker)}

\* the last call was a put_stock or a batch_put_stocks that returned
StoreWritten ==
    /\ request.kind \in {"put_stock", "batch_put_stocks"}
    /\ ~response.raised

\* C32: letter case of the ticker does not matter to the price store. Every
\* record just written by put_stock or batch_put_stocks, under whatever case,
\* and every record the table holds, is found by get_stock and by
\* query_stocks_by_date_range under every letter case of its ticker, and both
\* find the one record kept under the uppercased ticker.
C32_TickerCaseDoesNotMatter ==
    /\ StoreWritten
       => \A i \in 1..Len(request.items) : \A c \in LetterCases(request.items[i].ticker) :
            LET item == request.items[i]
                got == get_stock(store, c, item.date)
                queried == query_stocks_by_date_range(store, c, item.date, item.date)
            IN  /\ ~got.none
                /\ got.value.ticker = Upper(item.ticker)
                /\ got.value.priceData = item.priceData
                /\ queried = <<got.value>>
    /\ \A x \in store : \A c \in LetterCases(x.ticker) :
         /\ get_stock(store, c, x.date) = Some(x)
         /\ query_stocks_by_date_range(store, c, x.date, x.date) = <<x>>
    /\ \A x \in store : x.ticker = Upper(x.ticker)

\* a record written in lower case and found in upper case, another written in
\* upper case and found in lower case
C32_Witness ==
    /\ StoreWritten
    /\ request.kind = "batch_put_stocks"
    /\ Len(request.items) = 2
    /\ request.items[1].ticker = SymF
    /\ request.items[2].ticker = <<"f">>
    /\ ~get_stock(store, <<"f">>, request.items[1].date).none
    /\ ~get_stock(store, SymF, request.items[2].date).none
    /\ Len(query_stocks_by_date_range(store, <<"f">>, 1, 2)) = 2

(***************************************************************************)
(* Properties of the normalisation of a row, checked under SpecTransform   *)
(***************************************************************************)
\* a is v times num/den, rounded to the nearest unit
NearestTo(a, v, num, den) ==
    LET diff == a * den - v * num
    IN  2 * (IF diff >= 0 THEN diff ELSE -diff) <= den

\* C33: normalisation derives adjOpen, adjHigh and adjLow as the raw value
\* times adjClose/close (to the last kept digit), takes the ratio as 1 when
\* close is 0, leaves the raw values as they are and sets adjVolume to the
\* volume; close 100, adjClose 95, open 50 give adjOpen 47.5.
C33_AdjustedValuesFollowTheRatio ==
    pc = "done"
    => LET row == request.row
           rec == response.data[1]
           adj == IF row.AdjClose = NoAdjClose THEN row.Close ELSE row.AdjClose
           g == GCD(adj, row.Close)
       IN  /\ ~response.raised
           /\ Len(response.data) = 1
           /\ rec.open = row.Open /\ rec.high = row.High
           /\ rec.low = row.Low /\ rec.close = row.Close
           /\ rec.adjClose = adj
           /\ rec.volume = row.Volume
           /\ rec.adjVolume = rec.volume
           /\ row.Close # 0
              => /\ NearestTo(rec.adjOpen, row.Open, adj \div g, row.Close \div g)
                 /\ NearestTo(rec.adjHigh, row.High, adj \div g, row.Close \div g)
                 /\ NearestTo(rec.adjLow, row.Low, adj \div g, row.Close \div g)
           /\ row.Close = 0
              => /\ rec.adjOpen = row.Open
                 /\ rec.adjHigh = row.High
                 /\ rec.adjLow = row.Low
           /\ (row.Close = 1000000 /\ row.AdjClose = 950000 /\ row.Open = 500000)
              => rec.adjOpen = 475000

\* the row with close 100, adjusted close 95 and open 50 was normalised
C33_Witness ==
    /\ pc = "done"
    /\ request.row.Close = 1000000
    /\ request.row.AdjClose = 950000
    /\ request.row.Open = 500000
    /\ response.data[1].adjOpen = 475000
    /\ response.data[1].adjVolume = request.row.Volume

\* a row whose close is 0 and whose adjusted close is not was normalised
C33_WitnessZeroClose ==
    /\ pc = "done"
    /\ request.row.Close = 0
    /\ request.row.AdjClose = 950000
    /\ request.row.Open = 500000
    /\ response.data[1].adjOpen = 500000

(***************************************************************************)
(* Properties of the retry wrapper, checked under SpecRetry                *)
(***************************************************************************)
\* the failure is an APIError with a 4xx status other than 429
NotRetried(r) ==
    /\ r.raised
    /\ r.exc.type = "APIError"
    /\ r.exc.status_code \in 400..499
    /\ r.exc.status_code # 429

\* the failure is an APIError with status 429 or 5xx, or no APIError
Retried(r) ==
    /\ r.raised
    /\ \/ r.exc.type # "APIError"
       \/ r.exc.status_code = 429
       \/ r.exc.status_code \in 500..599

\* the calls of the wrapped function that were made
CallsMade == response.tries

\* C34: the wrapper stops at the first call that returns or fails with a 4xx
\* APIError other than 429, which it raises as it is without a further call;
\* after a failure with a 429 or 5xx APIError or with any other exception it
\* calls again, as long as calls are left.
C34_FailuresAreClassified ==
    pc = "done"
    => LET script == request.script
       IN  /\ CallsMade \in 1..(MAX_RETRIES + 1)
           /\ \A k \in 1..(MAX_RETRIES + 1) :
                /\ (k <= CallsMade /\ NotRetried(script[k]))
                   => /\ CallsMade = k
                      /\ response.raised
                      /\ response.exc = script[k].exc
                /\ (k <= CallsMade /\ Retried(script[k]) /\ k <= MAX_RETRIES)
                   => CallsMade > k
                /\ (k <= CallsMade /\ ~script[k].raised)
                   => CallsMade = k /\ ~response.raised
           /\ script[1].raised /\ NotRetried(script[1])
              => /\ CallsMade = 1
                 /\ response.sleeps = <<>>

\* a 429, a 503 and a ConnectionError were each followed by a further call, and
\* the 404 of the fourth call was raised
C34_Witness ==
    /\ pc = "done"
    /\ request.script[1].exc.status_code = 429
    /\ request.script[2].exc.status_code = 503
    /\ request.script[3].exc.type = "ConnectionError"
    /\ request.script[4].exc.status_code = 404
    /\ CallsMade = 4
    /\ response.raised
    /\ response.exc.status_code = 404

\* a 400 on the first call was raised at once
C34_WitnessFirstCall ==
    /\ pc = "done"
    /\ request.script[1].exc.status_code = 400
    /\ ~request.script[2].raised
    /\ CallsMade = 1
    /\ response.raised

\* the delays of a fully exhausted call, in seconds
ExhaustedDelays == <<2, 4, 8>>

\* every call of the wrapped function failed in a way that is retried
Exhausted ==
    \A k \in 1..(MAX_RETRIES + 1) :
        request.script[k].raised /\ ~NotRetried(request.script[k])

\* C35: the wrapper sleeps only between two calls of the wrapped function,
\* BACKOFF_BASE^k seconds before retry k, that is 2, 4 and 8 seconds; it does
\* not sleep after the last call, whether that returned or raised, and a fully
\* exhausted call has slept exactly 3 times.
C35_SleepsOnlyBetweenAttempts ==
    pc = "done"
    => /\ Len(response.sleeps) = CallsMade - 1
       /\ response.sleeps = SubSeq(ExhaustedDelays, 1, CallsMade - 1)
       /\ \A k \in 1..Len(response.sleeps) : response.sleeps[k] = Power(BACKOFF_BASE, k)
       /\ Len(response.calls) = 2 * CallsMade - 1
       /\ \A i \in 1..Len(response.calls) :
            (response.calls[i] = "sleep") <=> (i % 2 = 0)
       /\ response.calls[Len(response.calls)] # "sleep"
       /\ Exhausted => /\ CallsMade = MAX_RETRIES + 1
                       /\ response.sleeps = ExhaustedDelays
                       /\ response.raised
       /\ ~response.raised => response.calls[Len(response.calls)] = "attempt_ok"

\* a fully exhausted call: four failed calls, three sleeps of 2, 4 and 8
\* seconds, none after the last call
C35_Witness ==
    /\ pc = "done"
    /\ Exhausted
    /\ response.raised
    /\ response.sleeps = ExhaustedDelays
    /\ response.calls = <<"attempt_error", "sleep", "attempt_error", "sleep",
                          "attempt_error", "sleep", "attempt_error">>

(***************************************************************************)
(* Properties of the fund holdings, checked under SpecHoldings             *)
(***************************************************************************)
\* a call of get_etf_holdings that has just returned
HoldingsCallStep ==
    /\ outcome'.kind = "return"
    /\ <<request, response, outcome>>' # <<request, response, outcome>>

\* the entries of the fund in the table that have not expired at the call
FreshEntries(etf_ticker) ==
    {x \in store : x.pk = "ETF#" \o etf_ticker /\ x.sk = "HOLDINGS" /\ x.ttl >= now}

\* the table after a put of the list for the fund; unchanged when the put raised
TableAfterPut(etf_ticker, holdings, put_failed) ==
    IF put_failed THEN store
    ELSE {x \in store : ~(x.pk = "ETF#" \o etf_ticker /\ x.sk = "HOLDINGS")}
           \cup {[pk |-> "ETF#" \o etf_ticker, sk |-> "HOLDINGS",
                  holdings |-> json_dumps(holdings), ttl |-> now + CACHE_TTL_SECONDS,
                  entityType |-> "ETF_HOLDINGS"]}

\* the symbols the provider listed in the call, heaviest first
ProviderListed(u) ==
    IF u.kind = "holdings" THEN [i \in 1..u.n |-> ProviderSymbols[i]] ELSE <<>>

CalledIn(calls, name) == \E i \in 1..Len(calls) : calls[i] = name

C40_Step ==
    HoldingsCallStep =>
      LET o == outcome'
          fresh == FreshEntries(o.etf)
          listed == ProviderListed(o.upstream)
          static == ETF_TOP_HOLDINGS(o.etf)
      IN  /\ response'.raised = FALSE
          /\ response'.data = o.data
          /\ IF fresh # {} /\ ~o.read_failed
             THEN /\ \E x \in fresh : x.holdings = json_dumps(o.data)
                  /\ ~CalledIn(o.calls, "_fetch_from_yfinance")
                  /\ ~CalledIn(o.calls, "_cache_holdings")
                  /\ store' = store
             ELSE IF Len(listed) >= 5
             THEN /\ o.data = [i \in 1..Min(10, Len(listed)) |-> listed[i]]
                  /\ o.handed = Some(o.data)
                  /\ store' = TableAfterPut(o.etf, o.data, o.put_failed)
             ELSE IF Len(static) > 0
             THEN /\ o.data = static
                  /\ o.handed = Some(static)
                  /\ store' = TableAfterPut(o.etf, static, o.put_failed)
             ELSE /\ o.data = <<>>
                  /\ o.handed = None
                  /\ ~CalledIn(o.calls, "_cache_holdings")
                  /\ store' = store

\* C40: a call of get_etf_holdings never raises; it returns the list of an
\* unexpired cache entry without asking the provider and without writing;
\* failing that, a provider answer of at least 5 symbols is cut to its first
\* 10, put in the cache and returned; failing that, the entry of the static
\* table is put in the cache and returned, and a fund unknown to the static
\* table gets [] with no put; a put that raises leaves the table as it was
C40_HoldingsResolveInPriorityOrder == [][C40_Step]_vars

\* the provider listed 12 symbols on a miss: the first 10 are returned and are
\* in the table for a week
C40_Witness ==
    /\ outcome.kind = "return"
    /\ outcome.lookup = None
    /\ outcome.upstream = [kind |-> "holdings", n |-> 12]
    /\ Len(outcome.data) = 10
    /\ ~outcome.put_failed
    /\ \E x \in store : /\ x.pk = "ETF#" \o outcome.etf
                        /\ x.holdings = json_dumps(outcome.data)
                        /\ x.ttl = outcome.at + CACHE_TTL_SECONDS

\* an entry whose ttl is the present second is served without a provider call
C40_WitnessHitAtTtl ==
    /\ outcome.kind = "return"
    /\ ~outcome.lookup.none
    /\ outcome.calls = <<"_get_cached_holdings">>
    /\ \E x \in store : x.pk = "ETF#" \o outcome.etf /\ x.ttl = outcome.at /\ now = outcome.at

\* the read raised, the provider listed 4 symbols, the put raised: the static
\* list is returned
C40_WitnessStaticAfterFailures ==
    /\ outcome.kind = "return"
    /\ outcome.read_failed
    /\ outcome.put_failed
    /\ outcome.upstream = [kind |-> "holdings", n |-> 4]
    /\ outcome.data = XlkTopHoldings

\* a fund unknown to the static table, the provider raising: [] and no put
C40_WitnessUnknownFund ==
    /\ outcome.kind = "return"
    /\ outcome.etf = "ZZZ"
    /\ outcome.upstream.kind = "ticker_error"
    /\ outcome.data = <<>>
    /\ outcome.handed = None
    /\ store = {}

\* an expired entry is passed over for the provider
C40_WitnessExpiredEntry ==
    /\ outcome.kind = "return"
    /\ outcome.lookup = None
    /\ ~outcome.read_failed
    /\ outcome.put_failed
    /\ \E x \in store : x.pk = "ETF#" \o outcome.etf /\ x.ttl < outcome.at
====
